---- MODULE Spec2Model ----
(***************************************************************************)
(* The LLM streaming protocol engine of talkcody                           *)
(* (src-tauri/src/llm/streaming/stream_handler.rs): the stream             *)
(* orchestrator StreamHandler::stream_completion, the SSE frame decoder    *)
(* (find_sse_delimiter, parse_sse_event) and the OAuth/Codex protocol      *)
(* decoder parse_openai_oauth_event with its ProtocolStreamState.          *)
(*                                                                         *)
(* Conventions.  An Option<T> is a sequence of length 0 (None) or 1        *)
(* (Some).  A JSON object is a record; a field that is absent from the     *)
(* JSON is absent from the record.  Tool-call argument strings are         *)
(* sequences of one-character strings, so that trimming and JSON parsing   *)
(* are computed.  Rust indices are 0-based, sequence positions 1-based.    *)
(***************************************************************************)
EXTENDS Integers, Sequences, FiniteSets, TLC

VARIABLES
    pc,             \* position of stream_completion
    result,         \* its return value, "pending" until it returns
    rest,           \* upstream bytes the server has not yet delivered
    received,       \* history: the bytes delivered so far, in order
    upstream,       \* "live", or "stalled": no byte for the inter-chunk timeout
    buffer,         \* buffer: Vec<u8>
    state,          \* state: ProtocolStreamState
    events,         \* the events emitted on the request's channel, in order
    produced,       \* history: the events the decoder pushed, in push order
    decoded,        \* history: the frames handed to the decoder, in order
    frames,         \* history: the byte strings cut off the buffer as frames
    http_requests,  \* number of HTTP requests sent
    empty_chunks,   \* number of empty chunks received
    settings,       \* the models configuration, providers and credentials
    resolution,     \* the last call of the model resolver and what it returned
    wire,           \* history: the lines written into the buffer of the frame decoder
    sse,            \* history: the calls of the frame decoder and what they returned
    keep_awake,     \* KeepAwakeState and the history of its calls
    desktop,        \* the desktop KeepAwakeState, its child process and its callers
    oauth,          \* the pending OAuth states, the clock and the validations
    fs,             \* the file system and the calls of FileSystemPlatform
    throttler,      \* EventThrottler's token buffers and the history of its calls
    tracer,         \* TraceWriter: channel, batch, database and writer task
    cache,          \* the models cache of ApiKeyManager, the source and the loads
    request,        \* the messages given to build_openai_oauth_request and its body
    spans,          \* the tracing spans of one stream_completion and its exit
    gateway,        \* the Feishu gateway: its state, its loops and their callers
    callback        \* the OAuth callback server, its requests and its result events

vars == <<pc, result, rest, received, upstream, buffer, state, events,
          produced, decoded, frames, http_requests, empty_chunks,
          settings, resolution, wire, sse, keep_awake, desktop, oauth, fs,
          throttler, tracer, cache,
            request, spans, gateway, callback>>

\* what stream_completion and the decoder never touch
resolver_vars ==
    <<settings, resolution, wire, sse, keep_awake, desktop, oauth, fs, throttler, tracer,
      cache,
        request, spans, gateway, callback>>

\* what the model resolver and the frame decoder on its own never touch
stream_vars == <<pc, result, rest, received, upstream, state, events, produced,
                 http_requests, empty_chunks>>

---------------------------------------------------------------------------
(* Bounds of the model.                                                    *)

\* wire frames in one upstream byte stream
MaxFrames == 2
\* empty chunks one response may deliver
MaxEmptyChunks == 1
\* frames fed to the decoder when it is driven directly
MaxDecoded == 4

---------------------------------------------------------------------------
(* JSON access and strings.                                                *)

Has(p, f) == f \in DOMAIN p

\* p.get(f).and_then(|v| v.as_str()).unwrap_or_default() for ids and names
Str(p, f) == IF Has(p, f) THEN p[f] ELSE ""

\* the same for argument text, which is a sequence of characters
Chars(p, f) == IF Has(p, f) THEN p[f] ELSE <<>>

Last(s) == s[Len(s)]

Front(s) == SubSeq(s, 1, Len(s) - 1)

Min(S) == CHOOSE x \in S : \A y \in S : x <= y

RECURSIVE TrimStart(_)
TrimStart(s) == IF s # <<>> /\ Head(s) = " " THEN TrimStart(Tail(s)) ELSE s

RECURSIVE TrimEnd(_)
TrimEnd(s) == IF s # <<>> /\ Last(s) = " " THEN TrimEnd(Front(s)) ELSE s

\* str::trim
Trim(s) == TrimEnd(TrimStart(s))

\* str::trim().is_empty() of a tool name; names are "", " " or identifiers
NameBlank(n) == n \in {"", " "}

\* serde_json::from_str on argument text over the characters { } and space:
\* the only JSON document of that alphabet is the empty object, with
\* optional whitespace around and between its braces.
serde_json_from_str(s) ==
    LET a == TrimStart(s)
        b == IF a # <<>> /\ Head(a) = "{" THEN TrimStart(Tail(a)) ELSE <<"!">>
        c == IF b # <<>> /\ Head(b) = "}" THEN TrimStart(Tail(b)) ELSE <<"!">>
    IN  IF c = <<>>
        THEN [ok |-> TRUE, value |-> [json |-> "object", members |-> {}]]
        ELSE [ok |-> FALSE, value |-> [json |-> "null"]]

---------------------------------------------------------------------------
(* StreamEvent.                                                            *)

TextStart == [type |-> "TextStart"]

TextDelta(t) == [type |-> "TextDelta", text |-> t]

ReasoningStart(id) == [type |-> "ReasoningStart", id |-> id]

ReasoningDelta(id, t) == [type |-> "ReasoningDelta", id |-> id, text |-> t]

ReasoningEnd(id) == [type |-> "ReasoningEnd", id |-> id]

\* item is history: the tool_calls key the event was built from.
ToolCall(key, acc, input) ==
    [type |-> "ToolCall", tool_call_id |-> acc.tool_call_id,
     tool_name |-> acc.tool_name, input |-> input, item |-> key]

Usage(i, o, t) ==
    [type |-> "Usage", input_tokens |-> i, output_tokens |-> o, total_tokens |-> t]

Done(reason) == [type |-> "Done", finish_reason |-> reason]

Error(m) == [type |-> "Error", message |-> m]

---------------------------------------------------------------------------
(* ProtocolStreamState and the OAuth/Codex decoder.                        *)

NoToolCalls == [k \in {} |-> <<>>]

\* ProtocolStreamState::default()
DefaultState ==
    [tool_calls |-> NoToolCalls,
     tool_call_order |-> <<>>,
     emitted_tool_calls |-> {},
     pending_events |-> <<>>,
     text_started |-> FALSE,
     current_thinking_id |-> <<>>,
     finish_reason |-> <<>>]

\* HashMap::insert
Put(m, k, v) == [x \in DOMAIN m \cup {k} |-> IF x = k THEN v ELSE m[x]]

Push(st, ev) == [st EXCEPT !.pending_events = Append(@, ev)]

\* faulty variant of build_openai_oauth_tool_input: always forced
build_openai_oauth_tool_input_forced(arguments, force) ==
    IF Trim(arguments) = <<>> THEN <<[json |-> "object", members |-> {}]>>
    ELSE IF serde_json_from_str(arguments).ok THEN <<serde_json_from_str(arguments).value>>
    ELSE <<[json |-> "string", text |-> arguments]>>

build_openai_oauth_tool_input(arguments, force) ==
    IF Trim(arguments) = <<>>
    THEN IF force THEN <<[json |-> "object", members |-> {}]>> ELSE <<>>
    ELSE LET parsed == serde_json_from_str(arguments)
         IN  IF parsed.ok THEN <<parsed.value>>
             ELSE IF force THEN <<[json |-> "string", text |-> arguments]>>
             ELSE <<>>

\* faulty variant of emit_tool_calls: it does not consult emitted_tool_calls
RECURSIVE emit_tool_calls_unchecked(_, _, _, _)
emit_tool_calls_unchecked(st, order, i, force) ==
    IF i > Len(order) THEN st
    ELSE LET key == order[i]
             skip == emit_tool_calls_unchecked(st, order, i + 1, force)
         IN  IF key \notin DOMAIN st.tool_calls THEN skip
             ELSE LET acc == st.tool_calls[key]
                      input == build_openai_oauth_tool_input(acc.arguments, force)
                  IN  IF acc.tool_name = "" THEN skip
                      ELSE IF input = <<>> THEN skip
                      ELSE emit_tool_calls_unchecked(
                               [Push(st, ToolCall(key, acc, input[1]))
                                   EXCEPT !.emitted_tool_calls = @ \cup {key}],
                               order, i + 1, force)

RECURSIVE emit_tool_calls_from(_, _, _, _)
emit_tool_calls_from(st, order, i, force) ==
    IF i > Len(order) THEN st
    ELSE LET key == order[i]
             skip == emit_tool_calls_from(st, order, i + 1, force)
         IN  IF key \in st.emitted_tool_calls THEN skip
             ELSE IF key \notin DOMAIN st.tool_calls THEN skip
             ELSE LET acc == st.tool_calls[key]
                      input == build_openai_oauth_tool_input(acc.arguments, force)
                  IN  IF acc.tool_name = "" THEN skip
                      ELSE IF input = <<>> THEN skip
                      ELSE emit_tool_calls_from(
                               [Push(st, ToolCall(key, acc, input[1]))
                                   EXCEPT !.emitted_tool_calls = @ \cup {key}],
                               order, i + 1, force)

\* the closure emit_tool_calls: it walks a clone of tool_call_order
emit_tool_calls(st, force) == emit_tool_calls_from(st, st.tool_call_order, 1, force)

\* Vec::resize(n, String::new()) of a shorter vector
Resize(order, n) == order \o [i \in 1..(n - Len(order)) |-> ""]

\* the slot update that output_item.added, the delta and the done handler share;
\* src is the JSON object that may carry "index"
place_in_order(order, item_id, src) ==
    IF Has(src, "index")
    THEN LET grown == IF Len(order) <= src.index
                      THEN Resize(order, src.index + 1) ELSE order
             slot == grown[src.index + 1]
         IN  IF slot = "" \/ slot = item_id
             THEN [grown EXCEPT ![src.index + 1] = item_id]
             ELSE grown
    ELSE IF \E i \in 1..Len(order) : order[i] = item_id
         THEN order
         ELSE Append(order, item_id)

output_item_added(payload, st) ==
    IF ~Has(payload, "item") THEN st
    ELSE LET item == payload.item
             item_id == Str(item, "id")
             call_id == Str(item, "call_id")
             name == Str(item, "name")
             fresh == [tool_call_id |-> IF call_id = "" THEN item_id ELSE call_id,
                       tool_name |-> name, arguments |-> <<>>]
             acc0 == IF item_id \in DOMAIN st.tool_calls
                     THEN st.tool_calls[item_id] ELSE fresh
             acc1 == IF call_id # "" THEN [acc0 EXCEPT !.tool_call_id = call_id] ELSE acc0
             acc2 == IF name # "" THEN [acc1 EXCEPT !.tool_name = name] ELSE acc1
         IN  IF Str(item, "type") # "function_call" \/ item_id = "" THEN st
             ELSE [st EXCEPT !.tool_calls = Put(@, item_id, acc2),
                             !.tool_call_order = place_in_order(@, item_id, item)]

\* faulty variant of the delta handler: the delta replaces the arguments
function_call_delta_overwrites(payload, st) ==
    LET item_id == Str(payload, "item_id")
        delta == Chars(payload, "delta")
        acc0 == IF item_id \in DOMAIN st.tool_calls
                THEN st.tool_calls[item_id]
                ELSE [tool_call_id |-> item_id, tool_name |-> "", arguments |-> <<>>]
        acc1 == [acc0 EXCEPT !.arguments = IF delta # <<>> THEN delta ELSE @]
    IN  IF item_id = "" THEN st
        ELSE [st EXCEPT !.tool_calls = Put(@, item_id, acc1),
                        !.tool_call_order = place_in_order(@, item_id, payload)]

parse_openai_oauth_function_call_delta(payload, st) ==
    LET item_id == Str(payload, "item_id")
        delta == Chars(payload, "delta")
        acc0 == IF item_id \in DOMAIN st.tool_calls
                THEN st.tool_calls[item_id]
                ELSE [tool_call_id |-> item_id, tool_name |-> "", arguments |-> <<>>]
        acc1 == [acc0 EXCEPT !.arguments = @ \o delta]
    IN  IF item_id = "" THEN st
        ELSE [st EXCEPT !.tool_calls = Put(@, item_id, acc1),
                        !.tool_call_order = place_in_order(@, item_id, payload)]

\* returns the state and the Option<StreamEvent>
parse_openai_oauth_function_call_done(payload, st) ==
    LET item_id == Str(payload, "item_id")
        name == Str(payload, "name")
        args == Chars(payload, "arguments")
        acc0 == IF item_id \in DOMAIN st.tool_calls
                THEN st.tool_calls[item_id]
                ELSE [tool_call_id |-> item_id, tool_name |-> name, arguments |-> <<>>]
        acc1 == IF name # "" THEN [acc0 EXCEPT !.tool_name = name] ELSE acc0
        acc2 == IF args # <<>> THEN [acc1 EXCEPT !.arguments = args] ELSE acc1
        stored == [st EXCEPT !.tool_calls = Put(@, item_id, acc2)]
        forced == build_openai_oauth_tool_input(acc2.arguments, TRUE)
        input == IF forced # <<>> THEN forced[1] ELSE [json |-> "object", members |-> {}]
    IN  IF item_id = "" \/ item_id \in st.emitted_tool_calls
        THEN [state |-> st, event |-> <<>>]
        ELSE IF NameBlank(acc2.tool_name)
        THEN [state |-> stored, event |-> <<>>]
        ELSE [state |-> [stored EXCEPT
                            !.tool_call_order = place_in_order(@, item_id, payload),
                            !.emitted_tool_calls = @ \cup {item_id}],
              event |-> <<ToolCall(item_id, acc2, input)>>]

\* faulty variant of the done arm: the sweep ahead of the frame's own event
function_call_arguments_done_sweep_first(payload, st) ==
    LET d == parse_openai_oauth_function_call_done(payload, st)
        swept == emit_tool_calls(d.state, TRUE)
    IN  IF d.event # <<>> THEN Push(swept, d.event[1]) ELSE swept

\* faulty variant of the done arm: no sweep after the frame's own event
function_call_arguments_done_unswept(payload, st) ==
    LET d == parse_openai_oauth_function_call_done(payload, st)
    IN  IF d.event # <<>> THEN Push(d.state, d.event[1]) ELSE d.state

function_call_arguments_done(payload, st) ==
    LET d == parse_openai_oauth_function_call_done(payload, st)
        queued == IF d.event # <<>> THEN Push(d.state, d.event[1]) ELSE d.state
    IN  emit_tool_calls(queued, TRUE)

reasoning_text_delta(payload, st) ==
    LET id == IF Has(payload, "item_id") THEN payload.item_id ELSE "default"
        delta == Str(payload, "delta")
        s1 == IF st.current_thinking_id # <<id>>
              THEN Push([st EXCEPT !.current_thinking_id = <<id>>], ReasoningStart(id))
              ELSE st
    IN  IF delta # "" THEN Push(s1, ReasoningDelta(id, delta)) ELSE s1

reasoning_text_done(payload, st) ==
    Push(st, ReasoningEnd(IF Has(payload, "item_id") THEN payload.item_id ELSE "default"))

\* faulty variant of the text_started test: TextStart is pushed every time
text_start_always(st) == Push([st EXCEPT !.text_started = TRUE], TextStart)

text_start(st) ==
    IF ~st.text_started THEN Push([st EXCEPT !.text_started = TRUE], TextStart) ELSE st

content_part_added(payload, st) ==
    IF Has(payload, "part") /\ Has(payload.part, "text")
    THEN Push(text_start(st), TextDelta(payload.part.text))
    ELSE st

output_text_delta(payload, st) ==
    LET s1 == text_start(st)
    IN  IF Str(payload, "delta") # "" THEN Push(s1, TextDelta(payload.delta)) ELSE s1

\* the content parts of response.output[], in order
RECURSIVE output_parts(_)
output_parts(output) ==
    IF output = <<>> THEN <<>>
    ELSE (IF Has(Head(output), "content") THEN Head(output).content ELSE <<>>)
         \o output_parts(Tail(output))

RECURSIVE completed_text(_, _)
completed_text(parts, st) ==
    IF parts = <<>> THEN st
    ELSE LET part == Head(parts)
             s1 == IF Has(part, "text")
                   THEN Push(text_start(st), TextDelta(part.text)) ELSE st
             s2 == IF Str(part, "delta") # ""
                   THEN Push(text_start(s1), TextDelta(part.delta)) ELSE s1
         IN  completed_text(Tail(parts), s2)

\* as_i64().unwrap_or(0)
I64(p, f) == IF Has(p, f) THEN p[f] ELSE 0

\* faulty variant of the response.completed arm: Done only with a response
response_completed_needs_response(payload, st) ==
    LET response == IF Has(payload, "response") THEN payload.response ELSE [none |-> TRUE]
        s1 == IF Has(response, "usage")
              THEN Push(st, Usage(I64(response.usage, "input_tokens"),
                                  I64(response.usage, "output_tokens"),
                                  IF Has(response.usage, "total_tokens")
                                  THEN <<response.usage.total_tokens>> ELSE <<>>))
              ELSE st
        s2 == IF Has(response, "output")
              THEN completed_text(output_parts(response.output), s1) ELSE s1
    IN  IF Has(payload, "response") THEN Push(s2, Done(<<>>)) ELSE s2

response_completed(payload, st) ==
    LET response == IF Has(payload, "response") THEN payload.response ELSE [none |-> TRUE]
        s1 == IF Has(response, "usage")
              THEN Push(st, Usage(I64(response.usage, "input_tokens"),
                                  I64(response.usage, "output_tokens"),
                                  IF Has(response.usage, "total_tokens")
                                  THEN <<response.usage.total_tokens>> ELSE <<>>))
              ELSE st
        s2 == IF Has(response, "output")
              THEN completed_text(output_parts(response.output), s1) ELSE s1
    IN  Push(s2, Done(<<>>))

response_failed(payload, st) ==
    LET message == IF Has(payload, "response") /\ Has(payload.response, "error")
                      /\ Has(payload.response.error, "message")
                   THEN payload.response.error.message
                   ELSE "Response failed"
    IN  Push(st, Error(message))

\* an OpenAI-compatible chat.completion.chunk
chat_completion_chunk(payload, st) ==
    LET s1 == IF Has(payload, "usage")
              THEN Push(st, Usage(I64(payload.usage, "prompt_tokens"),
                                  I64(payload.usage, "completion_tokens"),
                                  IF Has(payload.usage, "total_tokens")
                                  THEN <<payload.usage.total_tokens>> ELSE <<>>))
              ELSE st
        choice == IF Has(payload, "choices") /\ payload.choices # <<>>
                  THEN payload.choices[1] ELSE [none |-> TRUE]
        s2 == IF Has(choice, "finish_reason")
              THEN [s1 EXCEPT !.finish_reason = <<choice.finish_reason>>] ELSE s1
        s3 == IF Has(choice, "delta") THEN text_start(s2) ELSE s2
    IN  IF Has(choice, "delta") /\ Str(choice.delta, "content") # ""
        THEN Push(s3, TextDelta(choice.delta.content))
        ELSE s3

\* the match on the resolved event type
\* faulty variant of the match: an unknown event type is surfaced as an Error
dispatch_unknown_is_error(event_type, payload, st) ==
    CASE event_type = "response.output_item.added" -> output_item_added(payload, st)
      [] event_type = "response.content_part.added" -> content_part_added(payload, st)
      [] event_type = "response.output_text.delta" -> output_text_delta(payload, st)
      [] event_type = "response.function_call_arguments.delta" ->
            emit_tool_calls(parse_openai_oauth_function_call_delta(payload, st), FALSE)
      [] event_type = "response.function_call_arguments.done" ->
            function_call_arguments_done(payload, st)
      [] event_type = "response.output_text.done" -> emit_tool_calls(st, TRUE)
      [] event_type = "response.reasoning_text.delta" -> reasoning_text_delta(payload, st)
      [] event_type = "response.reasoning_text.done" -> reasoning_text_done(payload, st)
      [] event_type = "response.completed" -> response_completed(payload, st)
      [] event_type = "response.failed" -> response_failed(payload, st)
      [] OTHER -> Push(st, Error("Unknown event type"))

dispatch(event_type, payload, st) ==
    CASE event_type = "response.output_item.added" -> output_item_added(payload, st)
      [] event_type = "response.content_part.added" -> content_part_added(payload, st)
      [] event_type = "response.output_text.delta" -> output_text_delta(payload, st)
      [] event_type = "response.function_call_arguments.delta" ->
            emit_tool_calls(parse_openai_oauth_function_call_delta(payload, st), FALSE)
      [] event_type = "response.function_call_arguments.done" ->
            function_call_arguments_done(payload, st)
      [] event_type = "response.output_text.done" -> emit_tool_calls(st, TRUE)
      [] event_type = "response.reasoning_text.delta" -> reasoning_text_delta(payload, st)
      [] event_type = "response.reasoning_text.done" -> reasoning_text_done(payload, st)
      [] event_type = "response.completed" -> response_completed(payload, st)
      [] event_type = "response.failed" -> response_failed(payload, st)
      [] OTHER -> st

\* the explicit SSE event name, else data.type, else data.event, else data.kind
resolved_event(event_type, payload) ==
    IF event_type # <<>> THEN event_type
    ELSE IF Has(payload, "type") THEN <<payload.type>>
    ELSE IF Has(payload, "event") THEN <<payload.event>>
    ELSE IF Has(payload, "kind") THEN <<payload.kind>>
    ELSE <<>>

\* the return of the oldest pending event; pushed is history: what this call
\* pushed onto the queue that held old events when it began
pop_pending(st, old) ==
    LET q == st.pending_events
    IN  [ok |-> TRUE,
         event |-> IF q # <<>> THEN <<Head(q)>> ELSE <<>>,
         state |-> IF q # <<>> THEN [st EXCEPT !.pending_events = Tail(q)] ELSE st,
         err |-> "",
         pushed |-> SubSeq(q, old + 1, Len(q))]

\* a data string that is no JSON document
Malformed == [malformed |-> TRUE]

\* Result<Option<StreamEvent>, String> with the state the call leaves
parse_openai_oauth_event(event_type, data, st) ==
    LET old == Len(st.pending_events)
        resolved == resolved_event(event_type, data)
    IN  IF Has(data, "malformed")
        THEN [ok |-> FALSE, event |-> <<>>, state |-> st,
              err |-> "expected value at line 1 column 1", pushed |-> <<>>]
        ELSE IF Str(data, "object") = "chat.completion.chunk"
        THEN pop_pending(chat_completion_chunk(data, st), old)
        ELSE IF resolved = <<>>
        THEN [ok |-> TRUE, event |-> <<>>, state |-> st, err |-> "", pushed |-> <<>>]
        ELSE pop_pending(dispatch(resolved[1], data, st), old)

---------------------------------------------------------------------------
(* The SSE frame decoder.  The buffer holds bytes; the bytes of one line   *)
(* of text travel as two units, so that a chunk boundary can fall inside   *)
(* a JSON object: DataOpen(json) is "data: " with the first part of the    *)
(* JSON text, DataClose the remainder of that text.                        *)

LF == [byte |-> "LF"]

CR == [byte |-> "CR"]

\* a byte that is not valid UTF-8
BadByte == [byte |-> "0xFF"]

DataOpen(json) == [line |-> "data", data |-> json]

DataClose == [line |-> "close"]

EventLine(name) == [line |-> "event", name |-> name]

\* a line with neither prefix, such as ": keep-alive"
CommentLine == [line |-> "comment"]

\* buf.windows(Len(w)).position(|x| x == w), 0 when there is none, else 1-based
position(buf, w) ==
    LET hits == {i \in 1..(Len(buf) - Len(w) + 1) : SubSeq(buf, i, i + Len(w) - 1) = w}
    IN  IF hits = {} THEN 0 ELSE Min(hits)

\* faulty variant of find_sse_delimiter: the delimiter that starts first
find_sse_delimiter_earliest(buf) ==
    IF /\ position(buf, <<LF, LF>>) # 0
       /\ \/ position(buf, <<CR, LF, CR, LF>>) = 0
          \/ position(buf, <<LF, LF>>) < position(buf, <<CR, LF, CR, LF>>)
    THEN <<[idx |-> position(buf, <<LF, LF>>) - 1, len |-> 2]>>
    ELSE IF position(buf, <<CR, LF, CR, LF>>) # 0
    THEN <<[idx |-> position(buf, <<CR, LF, CR, LF>>) - 1, len |-> 4]>>
    ELSE <<>>

\* Option<(index, delimiter_length)>, the index 0-based
find_sse_delimiter(buf) ==
    IF position(buf, <<CR, LF, CR, LF>>) # 0
    THEN <<[idx |-> position(buf, <<CR, LF, CR, LF>>) - 1, len |-> 4]>>
    ELSE IF position(buf, <<LF, LF>>) # 0
    THEN <<[idx |-> position(buf, <<LF, LF>>) - 1, len |-> 2]>>
    ELSE <<>>

\* String::from_utf8(event_bytes).is_ok()
valid_utf8(bytes) == \A i \in 1..Len(bytes) : bytes[i] # BadByte

\* str::lines: split at LF, a CR before the LF dropped; cur is the line being read
RECURSIVE lines(_, _)
lines(raw, cur) ==
    IF raw = <<>> THEN (IF cur = <<>> THEN <<>> ELSE <<cur>>)
    ELSE IF Head(raw) = LF
    THEN <<IF cur # <<>> /\ Last(cur) = CR THEN Front(cur) ELSE cur>>
         \o lines(Tail(raw), <<>>)
    ELSE lines(Tail(raw), Append(cur, Head(raw)))

has_prefix(line, prefix) ==
    line # <<>> /\ Has(Head(line), "line") /\ Head(line).line = prefix

\* the JSON text of one data line: complete when the line is its two units,
\* followed at most by carriage returns, which JSON reads as whitespace
line_data(line) ==
    IF Len(line) >= 2 /\ line[2] = DataClose /\ \A i \in 3..Len(line) : line[i] = CR
    THEN line[1].data
    ELSE Malformed

\* Option<SseEvent>; data lines joined by "\n": two JSON texts are no JSON text
parse_sse_event(raw) ==
    LET all == lines(raw, <<>>)
        is_event(l) == has_prefix(l, "event")
        is_data(l) == has_prefix(l, "data")
        event_lines == SelectSeq(all, is_event)
        data_lines == SelectSeq(all, is_data)
    IN  IF data_lines = <<>> THEN <<>>
        ELSE <<[event |-> IF event_lines = <<>> THEN <<>>
                          ELSE <<Head(Last(event_lines)).name>>,
                data |-> IF Len(data_lines) = 1 THEN line_data(data_lines[1])
                         ELSE Malformed]>>

---------------------------------------------------------------------------
(* The stream orchestrator, StreamHandler::stream_completion.              *)

TimeoutMessage == "Stream timeout - no data received for 60 seconds"

\* faulty variant of the emission order: the pending queue before the returned event
emitted_by_pending_first(r) ==
    r.state.pending_events \o (IF r.event # <<>> THEN r.event ELSE <<>>)

\* what one decoded frame sends to the channel: the returned event, then the
\* pending queue, oldest first
emitted_by(r) ==
    (IF r.event # <<>> THEN r.event ELSE <<>>) \o r.state.pending_events

\* The loop `while let Some(..) = Self::find_sse_delimiter(&buffer)` over the
\* record c of the locals it changes.  c.outcome tells how it was left: "wait"
\* (no complete frame is left), "break" (the returned event was Done), "utf8"
\* or "parse" (stream_completion returned an error).
RECURSIVE process_buffer(_)

\* faulty variant of the match: the returned event is emitted, the queue is kept
on_decoded_undrained(c, r) ==
    IF ~r.ok
    THEN [c EXCEPT !.events = Append(@, Error(r.err)), !.outcome = "parse"]
    ELSE IF r.event # <<>> /\ r.event[1].type = "Done"
    THEN [c EXCEPT !.events = @ \o r.event, !.produced = @ \o r.pushed,
                   !.state = r.state, !.outcome = "break"]
    ELSE process_buffer([c EXCEPT !.events = @ \o r.event, !.produced = @ \o r.pushed,
                                  !.state = r.state])

\* the match on the decoder's result r
on_decoded(c, r) ==
    IF ~r.ok
    THEN [c EXCEPT !.events = Append(@, Error(r.err)), !.outcome = "parse"]
    ELSE IF r.event # <<>> /\ r.event[1].type = "Done"
    THEN [c EXCEPT !.events = @ \o emitted_by(r),
                   !.produced = @ \o r.pushed,
                   !.state = [r.state EXCEPT !.pending_events = <<>>],
                   !.outcome = "break"]
    ELSE process_buffer([c EXCEPT !.events = @ \o emitted_by(r),
                                  !.produced = @ \o r.pushed,
                                  !.state = [r.state EXCEPT !.pending_events = <<>>]])

\* the body of the loop once the frame is valid UTF-8; parsed: Option<SseEvent>
on_frame(c, parsed) ==
    IF parsed = <<>> THEN process_buffer(c)
    ELSE on_decoded([c EXCEPT !.decoded = Append(@, parsed[1])],
                    parse_openai_oauth_event(parsed[1].event, parsed[1].data, c.state))

\* the body of the loop for the delimiter d; c already has the frame drained
on_event_bytes(c, event_bytes) ==
    IF ~valid_utf8(event_bytes)
    THEN [c EXCEPT !.events = Append(@, Error("Invalid UTF-8 in SSE event")),
                   !.outcome = "utf8"]
    ELSE on_frame(c, parse_sse_event(event_bytes))

drain_frame(c, d) ==
    on_event_bytes([c EXCEPT !.buffer = SubSeq(@, d.idx + d.len + 1, Len(@)),
                             !.frames = Append(@, SubSeq(c.buffer, 1, d.idx))],
                   SubSeq(c.buffer, 1, d.idx))

next_delimiter(c, found) ==
    IF found = <<>> THEN [c EXCEPT !.outcome = "wait"] ELSE drain_frame(c, found[1])

process_buffer(c) == next_delimiter(c, find_sse_delimiter(c.buffer))

locals ==
    [buffer |-> buffer, state |-> state, events |-> events, produced |-> produced,
     decoded |-> decoded, frames |-> frames, outcome |-> "wait"]

\* JSON payloads the upstream of the orchestrator model sends
CompletedPayload == [type |-> "response.completed"]

CompletedUsagePayload ==
    [type |-> "response.completed",
     response |-> [usage |-> [input_tokens |-> 1, output_tokens |-> 1, total_tokens |-> 2]]]

TextPayload == [type |-> "response.output_text.delta", delta |-> "hi"]

FailedPayload == [type |-> "response.failed"]

ChunkPayload ==
    [object |-> "chat.completion.chunk",
     choices |-> <<[finish_reason |-> "stop", delta |-> [content |-> "ok"]]>>]

WirePayloads ==
    {CompletedPayload, CompletedUsagePayload, TextPayload, FailedPayload,
     ChunkPayload, Malformed}

\* the bodies of the frames the upstream sends
WireBodies ==
    {<<DataOpen(p), DataClose>> : p \in WirePayloads}
        \cup {<<BadByte>>, <<CommentLine>>}

Delimiters == {<<LF, LF>>, <<CR, LF, CR, LF>>}

WireFrames == {b \o d : b \in WireBodies, d \in Delimiters}

\* the byte streams of at most n frames
RECURSIVE StreamsOf(_)
StreamsOf(n) ==
    IF n = 0 THEN {<<>>}
    ELSE StreamsOf(n - 1) \cup {s \o w : s \in StreamsOf(n - 1), w \in WireFrames}

Streams == StreamsOf(MaxFrames)

Init ==
    /\ pc = "resolve"
    /\ result = "pending"
    /\ rest = <<>>
    /\ received = <<>>
    /\ upstream = "live"
    /\ buffer = <<>>
    /\ state = DefaultState
    /\ events = <<>>
    /\ produced = <<>>
    /\ decoded = <<>>
    /\ frames = <<>>
    /\ http_requests = 0
    /\ empty_chunks = 0
    /\ request = <<>>
    /\ spans = <<>>
    /\ gateway = <<>>
    /\ callback = <<>>
    /\ settings = <<>>
    /\ resolution = <<>>
    /\ wire = <<>>
    /\ sse = <<>>
    /\ keep_awake = <<>>
    /\ desktop = <<>>
    /\ oauth = <<>>
    /\ fs = <<>>
    /\ throttler = <<>>
    /\ tracer = <<>>
    /\ cache = <<>>

Return(r) == pc' = "returned" /\ result' = r

\* resolve_model_and_provider(..).await? fails (as do the other `?` before the request)
ResolveFailed ==
    /\ pc = "resolve"
    /\ Return("resolve_failed")
    /\ UNCHANGED <<rest, received, upstream, buffer, state, events, produced,
                   decoded, frames, http_requests, empty_chunks>>
    /\ UNCHANGED resolver_vars

Resolved ==
    /\ pc = "resolve"
    /\ pc' = "send"
    /\ UNCHANGED <<result, rest, received, upstream, buffer, state, events, produced,
                   decoded, frames, http_requests, empty_chunks>>
    /\ UNCHANGED resolver_vars

\* req_builder.send().await fails: map_err(..)?
SendFailed ==
    /\ pc = "send"
    /\ http_requests' = http_requests + 1
    /\ Return("request_failed")
    /\ UNCHANGED <<rest, received, upstream, buffer, state, events, produced,
                   decoded, frames, empty_chunks>>
    /\ UNCHANGED resolver_vars

\* the response has status >= 400
HttpError ==
    /\ pc = "send"
    /\ http_requests' = http_requests + 1
    /\ events' = Append(events, Error("HTTP 500: body"))
    /\ Return("http_error")
    /\ UNCHANGED <<rest, received, upstream, buffer, state, produced,
                   decoded, frames, empty_chunks>>
    /\ UNCHANGED resolver_vars

\* the response has status < 400; its body is one of the streams
ResponseOk ==
    /\ pc = "send"
    /\ http_requests' = http_requests + 1
    /\ rest' \in Streams
    /\ pc' = "stream"
    /\ UNCHANGED <<result, received, upstream, buffer, state, events, produced,
                   decoded, frames, empty_chunks>>
    /\ UNCHANGED resolver_vars

\* one turn of the read loop on a chunk of n >= 1 bytes
RecvChunk ==
    /\ pc = "stream" /\ upstream = "live"
    /\ \E n \in 1..Len(rest) :
        \E c \in {process_buffer([locals EXCEPT !.buffer = buffer \o SubSeq(rest, 1, n)])} :
            /\ rest' = SubSeq(rest, n + 1, Len(rest))
            /\ received' = received \o SubSeq(rest, 1, n)
            /\ buffer' = c.buffer
            /\ state' = c.state
            /\ events' = c.events
            /\ produced' = c.produced
            /\ decoded' = c.decoded
            /\ frames' = c.frames
            /\ IF c.outcome \in {"utf8", "parse"}
               THEN Return(c.outcome)
               ELSE UNCHANGED <<pc, result>>
    /\ UNCHANGED <<upstream, http_requests, empty_chunks>>
    /\ UNCHANGED resolver_vars

\* bytes.is_empty(): continue
RecvEmptyChunk ==
    /\ pc = "stream" /\ upstream = "live"
    /\ empty_chunks < MaxEmptyChunks
    /\ empty_chunks' = empty_chunks + 1
    /\ UNCHANGED <<pc, result, rest, received, upstream, buffer, state, events,
                   produced, decoded, frames, http_requests>>
    /\ UNCHANGED resolver_vars

\* faulty variant of the end of the stream: no final Done
RecvEnd_without_done ==
    /\ pc = "stream" /\ upstream = "live"
    /\ rest = <<>>
    /\ Return("ok")
    /\ UNCHANGED <<rest, received, upstream, buffer, state, events, produced, decoded,
                   frames, http_requests, empty_chunks>>
    /\ UNCHANGED resolver_vars

\* Ok(None): break, then the code after the loop
RecvEnd ==
    /\ pc = "stream" /\ upstream = "live"
    /\ rest = <<>>
    /\ events' = Append(events, Done(state.finish_reason))
    /\ Return("ok")
    /\ UNCHANGED <<rest, received, upstream, buffer, state, produced, decoded,
                   frames, http_requests, empty_chunks>>
    /\ UNCHANGED resolver_vars

\* faulty variant of the read error: the Error is emitted and the loop goes on
RecvError_continues ==
    /\ pc = "stream" /\ upstream = "live"
    /\ Len(events) < 4
    /\ events' = Append(events, Error("Stream error"))
    /\ UNCHANGED <<pc, result, rest, received, upstream, buffer, state, produced,
                   decoded, frames, http_requests, empty_chunks>>
    /\ UNCHANGED resolver_vars

\* Ok(Some(Err(e))): a transport read error
RecvError ==
    /\ pc = "stream" /\ upstream = "live"
    /\ events' = Append(events, Error("Stream error"))
    /\ Return("stream_error")
    /\ UNCHANGED <<rest, received, upstream, buffer, state, produced, decoded,
                   frames, http_requests, empty_chunks>>
    /\ UNCHANGED resolver_vars

\* the upstream stops producing bytes
Stall ==
    /\ pc = "stream" /\ upstream = "live"
    /\ upstream' = "stalled"
    /\ UNCHANGED <<pc, result, rest, received, buffer, state, events, produced,
                   decoded, frames, http_requests, empty_chunks>>
    /\ UNCHANGED resolver_vars

\* Err(_) of timeout(stream_timeout, stream.next())
RecvTimeout ==
    /\ pc = "stream" /\ upstream = "stalled"
    /\ events' = Append(events, Error(TimeoutMessage))
    /\ Return("timeout")
    /\ UNCHANGED <<rest, received, upstream, buffer, state, produced, decoded,
                   frames, http_requests, empty_chunks>>
    /\ UNCHANGED resolver_vars

Next ==
    \/ ResolveFailed
    \/ Resolved
    \/ SendFailed
    \/ HttpError
    \/ ResponseOk
    \/ RecvChunk
    \/ RecvEmptyChunk
    \/ RecvEnd
    \/ RecvError
    \/ Stall
    \/ RecvTimeout

Spec == Init /\ [][Next]_vars

---------------------------------------------------------------------------
(* The decoder driven directly, frame by frame, as the unit tests of       *)
(* stream_handler.rs drive it: the caller takes the returned event and     *)
(* may or may not drain state.pending_events before the next frame.        *)

Ids == {"a", "b"}

\* obj with "index": i, or without the field when i < 0
Indexed(obj, i) == IF i < 0 THEN obj ELSE [index |-> i] @@ obj

AddedFrame(id, i) ==
    [type |-> "response.output_item.added",
     item |-> Indexed([type |-> "function_call", id |-> id,
                       call_id |-> "call_" \o id, name |-> "f"], i)]

DeltaFrame(id, delta, i) ==
    Indexed([type |-> "response.function_call_arguments.delta",
             item_id |-> id, delta |-> delta], i)

DoneFrame(id, name, arguments) ==
    [type |-> "response.function_call_arguments.done",
     item_id |-> id, name |-> name, arguments |-> arguments]

DecoderFrames ==
    {AddedFrame("a", -1), AddedFrame("a", 0), AddedFrame("b", -1), AddedFrame("b", 1),
     DeltaFrame("a", <<"{">>, -1), DeltaFrame("a", <<"}">>, -1),
     DeltaFrame("a", <<"{", "}">>, -1), DeltaFrame("a", <<"}">>, 1),
     DeltaFrame("b", <<"{">>, -1), DeltaFrame("b", <<"{", "}">>, -1),
     DoneFrame("a", "f", <<"{", "}">>), DoneFrame("b", "f", <<>>),
     DoneFrame("a", "", <<"{">>)}

InitDecoder ==
    /\ pc = "decoder"
    /\ result = "pending"
    /\ rest = <<>>
    /\ received = <<>>
    /\ upstream = "live"
    /\ buffer = <<>>
    /\ state = DefaultState
    /\ events = <<>>
    /\ produced = <<>>
    /\ decoded = <<>>
    /\ frames = <<>>
    /\ http_requests = 0
    /\ empty_chunks = 0
    /\ request = <<>>
    /\ spans = <<>>
    /\ gateway = <<>>
    /\ callback = <<>>
    /\ settings = <<>>
    /\ resolution = <<>>
    /\ wire = <<>>
    /\ sse = <<>>
    /\ keep_awake = <<>>
    /\ desktop = <<>>
    /\ oauth = <<>>
    /\ fs = <<>>
    /\ throttler = <<>>
    /\ tracer = <<>>
    /\ cache = <<>>

\* parse_openai_oauth_event(None, data, &mut state)
Feed ==
    /\ pc = "decoder"
    /\ Len(decoded) < MaxDecoded
    /\ \E data \in DecoderFrames :
        \E r \in {parse_openai_oauth_event(<<>>, data, state)} :
            /\ state' = r.state
            /\ events' = events \o r.event
            /\ produced' = produced \o r.pushed
            /\ decoded' = Append(decoded, [event |-> <<>>, data |-> data])
    /\ UNCHANGED <<pc, result, rest, received, upstream, buffer, frames,
                   http_requests, empty_chunks>>
    /\ UNCHANGED resolver_vars

\* the caller drains state.pending_events
TakePending ==
    /\ pc = "decoder"
    /\ state.pending_events # <<>>
    /\ events' = events \o state.pending_events
    /\ state' = [state EXCEPT !.pending_events = <<>>]
    /\ UNCHANGED <<pc, result, rest, received, upstream, buffer, produced, decoded,
                   frames, http_requests, empty_chunks>>
    /\ UNCHANGED resolver_vars

NextDecoder ==
    \/ Feed
    \/ TakePending

DecoderSpec == InitDecoder /\ [][NextDecoder]_vars

---------------------------------------------------------------------------
(* The model registry (llm/models/model_registry.rs) and the model         *)
(* resolver (llm/ai_services/model_resolver.rs).  A string that the code   *)
(* trims, splits or formats is a sequence of units: a credential is a      *)
(* sequence of characters, a model identifier a sequence of ids and "@".   *)

\* the stored value that switches a local daemon provider on
Enabled == <<"e", "n", "a", "b", "l", "e", "d">>

\* registry.provider(provider_id): Option<&ProviderConfig>
registry_provider(registry, provider_id) ==
    IF \E i \in 1..Len(registry) : registry[i].id = provider_id
    THEN <<registry[Min({i \in 1..Len(registry) : registry[i].id = provider_id})]>>
    ELSE <<>>

\* faulty variant of the registry branch: a local daemon needs no "enabled"
builtin_available_without_flag(cfg, provider_id, api_keys) ==
    IF cfg.auth_type \in {"None", "TalkCodyJwt"} THEN TRUE
    ELSE provider_id \in DOMAIN api_keys /\ Trim(api_keys[provider_id]) # <<>>

\* the branch of provider_available for a provider found in the registry
builtin_available(cfg, provider_id, api_keys) ==
    IF cfg.auth_type = "None"
    THEN IF provider_id \in {"ollama", "lmstudio"}
         THEN provider_id \in DOMAIN api_keys /\ api_keys[provider_id] = Enabled
         ELSE TRUE
    ELSE IF cfg.auth_type = "TalkCodyJwt" THEN TRUE
    ELSE IF provider_id \in DOMAIN api_keys /\ Trim(api_keys[provider_id]) # <<>>
    THEN TRUE
    ELSE cfg.supports_oauth /\ provider_id \in DOMAIN api_keys
            /\ Trim(api_keys[provider_id]) # <<>>

provider_available(provider_id, api_keys, registry, custom_providers) ==
    IF provider_id \in DOMAIN custom_providers
    THEN custom_providers[provider_id].enabled
            /\ Trim(custom_providers[provider_id].api_key) # <<>>
    ELSE IF registry_provider(registry, provider_id) # <<>>
    THEN builtin_available(registry_provider(registry, provider_id)[1], provider_id, api_keys)
    ELSE FALSE

\* api_key_map.entry(provider_id).or_insert(token) for every OAuth token
merge_oauth_tokens(api_keys, oauth_tokens) ==
    [p \in DOMAIN api_keys \cup DOMAIN oauth_tokens |->
        IF p \in DOMAIN api_keys THEN api_keys[p] ELSE oauth_tokens[p]]

AvailableModel(model_key, model_cfg, provider_id, provider_name) ==
    [key |-> model_key, name |-> model_cfg.name, provider |-> provider_id,
     provider_name |-> provider_name,
     input_pricing |-> IF model_cfg.pricing = <<>> THEN <<>>
                       ELSE <<model_cfg.pricing[1].input>>]

\* the (model_key, provider_id) pairs the two loops of
\* compute_available_models_internal visit
declared_pairs(config) ==
    UNION {{<<m, config[m].providers[i]>> : i \in DOMAIN config[m].providers} :
              m \in DOMAIN config}

\* the entries of model_map after the two loops; the key
\* "{model_key}-{provider_id}" is one entry per pair, the first insert kept
model_map_values(config, api_keys, registry, custom_providers) ==
    {AvailableModel(x[1], config[x[1]], x[2], registry_provider(registry, x[2])[1].name) :
        x \in {y \in declared_pairs(config) :
                  /\ provider_available(y[2], api_keys, registry, custom_providers)
                  /\ registry_provider(registry, y[2]) # <<>>}}
    \cup
    {AvailableModel(x[1], config[x[1]], x[2], custom_providers[x[2]].name) :
        x \in {y \in declared_pairs(config) :
                  /\ y[2] \in DOMAIN custom_providers
                  /\ custom_providers[y[2]].enabled
                  /\ Trim(custom_providers[y[2]].api_key) # <<>>
                  /\ ~(/\ provider_available(y[2], api_keys, registry, custom_providers)
                       /\ registry_provider(registry, y[2]) # <<>>)}}

\* the display names, in the order of String::cmp
NameRank(name) == IF name = "Alpha" THEN 1 ELSE 2

\* f64 values: a finite number, +infinity, or NaN
F64(n) == [f64 |-> "finite", value |-> n]

Infinity == [f64 |-> "inf"]

NaN == [f64 |-> "nan"]

\* str::parse::<f64> on the price strings of the configuration
parse_f64(text) ==
    CASE text = "1" -> <<F64(1)>>
      [] text = "2" -> <<F64(2)>>
      [] text = "NaN" -> <<NaN>>
      [] text = "inf" -> <<Infinity>>
      [] OTHER -> <<>>

\* a.partial_cmp(&b) == Some(Ordering::Less)
f64_less(a, b) ==
    /\ a.f64 = "finite"
    /\ \/ b.f64 = "inf"
       \/ b.f64 = "finite" /\ a.value < b.value

\* compare(a, b) == Ordering::Less for the two comparators of the code
is_less(by, a, b) ==
    IF by = "name" THEN NameRank(a.name) < NameRank(b.name)
    ELSE \/ a.context_length > b.context_length
         \/ a.context_length = b.context_length /\ f64_less(a.input_price, b.input_price)

\* slice::sort_by on a short slice: a stable insertion sort; insert_tail
\* moves the last element of sorted \o <<x>> left while it is less
RECURSIVE insert_tail(_, _, _)
insert_tail(by, sorted, x) ==
    IF sorted # <<>> /\ is_less(by, x, Last(sorted))
    THEN Append(insert_tail(by, Front(sorted), x), Last(sorted))
    ELSE Append(sorted, x)

RECURSIVE sort_by(_, _)
sort_by(by, v) ==
    IF v = <<>> THEN <<>> ELSE insert_tail(by, sort_by(by, Front(v)), Last(v))

\* faulty variant of the result: the map's values, not sorted
available_models_unsorted(values_order) == values_order

\* values_order: the iteration order of model_map.values()
compute_available_models_internal(values_order) == sort_by("name", values_order)

\* str::split('@'); cur is the part being read
RECURSIVE split_at(_, _)
split_at(text, cur) ==
    IF text = <<>> THEN <<cur>>
    ELSE IF Head(text) = "@" THEN <<cur>> \o split_at(Tail(text), <<>>)
    ELSE split_at(Tail(text), Append(cur, Head(text)))

\* format!("{}@{}", model_key, provider_id)
format_identifier(model_key, provider_id) == model_key \o <<"@">> \o provider_id

\* models.contains_key(text); the keys of the configuration hold no '@'
contains_key(config, text) == Len(text) = 1 /\ text[1] \in DOMAIN config

Ok(value) == [ok |-> TRUE, value |-> value]

Err(message) == [ok |-> FALSE, err |-> message]

\* the ids at the positions of a list that satisfy the availability rule
available_positions(providers, api_keys, registry, custom_providers) ==
    {i \in DOMAIN providers :
        provider_available(providers[i], api_keys, registry, custom_providers)}

\* the registry loop and the custom provider fallback of get_model_provider;
\* custom_order is the iteration order of custom_providers.providers
any_provider(model_identifier, api_keys, registry, custom_providers, custom_order) ==
    IF available_positions([i \in DOMAIN registry |-> registry[i].id], api_keys,
                           registry, custom_providers) # {}
    THEN Ok(<<model_identifier,
              <<registry[Min(available_positions(
                    [i \in DOMAIN registry |-> registry[i].id], api_keys, registry,
                    custom_providers))].id>>>>)
    ELSE IF \E i \in DOMAIN custom_order : custom_providers[custom_order[i]].enabled
    THEN Ok(<<model_identifier,
              <<custom_order[Min({i \in DOMAIN custom_order :
                    custom_providers[custom_order[i]].enabled})]>>>>)
    ELSE Err("No available provider for model")

\* faulty variant of get_model_provider: the registry's order decides
get_model_provider_by_registry(model_identifier, api_keys, registry, custom_providers, config, custom_order) ==
    IF Len(split_at(model_identifier, <<>>)) = 2
    THEN Ok(split_at(model_identifier, <<>>))
    ELSE any_provider(model_identifier, api_keys, registry, custom_providers, custom_order)

\* Result<(String, String), String>
get_model_provider(model_identifier, api_keys, registry, custom_providers, config, custom_order) ==
    IF Len(split_at(model_identifier, <<>>)) = 2
    THEN Ok(split_at(model_identifier, <<>>))
    ELSE IF contains_key(config, model_identifier)
    THEN IF available_positions(config[model_identifier[1]].providers, api_keys, registry,
                                custom_providers) # {}
         THEN Ok(<<model_identifier,
                   <<config[model_identifier[1]].providers[
                        Min(available_positions(config[model_identifier[1]].providers,
                                                api_keys, registry, custom_providers))]>>>>)
         ELSE Err("No available provider for model")
    ELSE any_provider(model_identifier, api_keys, registry, custom_providers, custom_order)

\* the branch of try_resolve_model for an identifier that is a model key
resolve_configured(found) ==
    IF found.ok THEN <<format_identifier(found.value[1], found.value[2])>> ELSE <<>>

\* the branch of try_resolve_model for an identifier with an '@'
resolve_qualified(parts, config, registry) ==
    IF /\ Len(parts) = 2
       /\ contains_key(config, parts[1])
       /\ Len(parts[2]) = 1 /\ registry_provider(registry, parts[2][1]) # <<>>
    THEN <<format_identifier(parts[1], parts[2])>>
    ELSE <<>>

\* Ok(Option<String>) of try_resolve_model; the loads of the configuration succeed
try_resolve_model(w, model_identifier, custom_order) ==
    IF contains_key(w.models, model_identifier)
    THEN resolve_configured(get_model_provider(model_identifier, w.api_keys, w.registry,
                                               w.custom_providers, w.models, custom_order))
    ELSE IF \E i \in DOMAIN model_identifier : model_identifier[i] = "@"
    THEN resolve_qualified(split_at(model_identifier, <<>>), w.models, w.registry)
    ELSE <<>>

resolve_any_available(available) ==
    IF available # <<>>
    THEN Ok(format_identifier(<<available[1].key>>, <<available[1].provider>>))
    ELSE Err("No available model for the requested operation")

ModelFallbackInfo(config, model) ==
    [model_key |-> model.key, provider_id |-> model.provider,
     context_length |-> IF config[model.key].context_length = <<>> THEN 0
                        ELSE config[model.key].context_length[1],
     input_price |-> IF model.input_pricing = <<>> THEN Infinity
                     ELSE IF parse_f64(model.input_pricing[1]) = <<>> THEN Infinity
                     ELSE parse_f64(model.input_pricing[1])[1]]

\* the sorted candidates of resolve_compaction_fallback
candidates(config, available) ==
    sort_by("compaction", [i \in DOMAIN available |-> ModelFallbackInfo(config, available[i])])

best_candidate(sorted) ==
    IF sorted # <<>>
    THEN Ok(format_identifier(<<sorted[1].model_key>>, <<sorted[1].provider_id>>))
    ELSE Err("No available model for compaction")

resolve_compaction_fallback(config, available) == best_candidate(candidates(config, available))

fallback(strategy, config, available) ==
    IF strategy = "AnyAvailable" THEN resolve_any_available(available)
    ELSE resolve_compaction_fallback(config, available)

preferred_or_fallback(tried, strategy, config, available) ==
    IF tried # <<>> THEN Ok(tried[1]) ELSE fallback(strategy, config, available)

\* preferred: Option<String>; available: what compute_available_models returns
resolve_model_identifier(w, preferred, strategy, available, custom_order) ==
    IF preferred # <<>>
    THEN preferred_or_fallback(try_resolve_model(w, preferred[1], custom_order), strategy,
                               w.models, available)
    ELSE fallback(strategy, w.models, available)

---------------------------------------------------------------------------
(* The registry and the resolver called on the settings a user can have.   *)

ProviderConfig(id, name, auth_type, supports_oauth) ==
    [id |-> id, name |-> name, auth_type |-> auth_type, supports_oauth |-> supports_oauth]

OpenAI == ProviderConfig("openai", "OpenAI", "Bearer", TRUE)

\* a local daemon, switched on by the stored value "enabled"
Ollama == ProviderConfig("ollama", "Ollama", "None", FALSE)

\* a provider that needs no credential
Keyless == ProviderConfig("keyless", "Keyless", "None", FALSE)

TalkCody == ProviderConfig("talkcody", "TalkCody", "TalkCodyJwt", FALSE)

LmStudio == ProviderConfig("lmstudio", "LM Studio", "None", FALSE)

\* ProviderRegistry::new(..): the providers in registration order
Registries ==
    {<<OpenAI, Ollama, Keyless, TalkCody, LmStudio>>,
     <<LmStudio, TalkCody, Keyless, Ollama, OpenAI>>,
     <<Ollama>>}

Blank == <<" ">>

Secret == <<"s", "k">>

\* a map with the entry key -> value[1] when value is Some, else without it
Entry(key, value) == IF value = <<>> THEN <<>> ELSE key :> value[1]

\* what load_api_keys returns: the stored api_key_* settings that are not ""
ApiKeyMaps ==
    {Entry("openai", a) @@ Entry("ollama", b) :
        a \in {<<>>, <<Blank>>, <<Secret>>}, b \in {<<>>, <<Enabled>>, <<Secret>>}}

\* what load_oauth_tokens returns: tokens that are not blank
OAuthTokenMaps == {<<>>, "openai" :> <<"t">>}

CustomProviderConfig(name, enabled, api_key) ==
    [name |-> name, enabled |-> enabled, api_key |-> api_key]

\* custom-providers.json; a custom provider may take the id of a built-in one
CustomProviderMaps ==
    {<<>>,
     "custom" :> CustomProviderConfig("Custom", TRUE, Secret),
     "custom" :> CustomProviderConfig("Custom", TRUE, Blank),
     "custom" :> CustomProviderConfig("Custom", TRUE, <<>>),
     "custom" :> CustomProviderConfig("Custom", FALSE, Secret),
     ("custom" :> CustomProviderConfig("Custom", TRUE, Secret))
        @@ ("openai" :> CustomProviderConfig("Mine", FALSE, Secret))}

ModelConfig(name, providers, pricing, context_length) ==
    [name |-> name, providers |-> providers, pricing |-> pricing,
     context_length |-> context_length]

\* declared provider lists of a model
ProviderLists ==
    {<<"openai">>, <<"ollama", "openai">>, <<"openai", "ollama">>, <<"custom">>,
     <<"talkcody", "keyless">>}

\* models of which the providers vary
RegistryModels ==
    {Entry("m1", a) @@ Entry("m2", b) :
        a \in {<<>>} \cup {<<ModelConfig(n, ps, <<>>, <<>>)>> :
                              n \in {"Alpha", "Beta"}, ps \in ProviderLists},
        b \in {<<>>, <<ModelConfig("Alpha", <<"openai">>, <<>>, <<>>)>>,
               <<ModelConfig("Beta", <<"custom">>, <<>>, <<>>)>>}}

\* pricing.input of a model: None, or a string
PricedModels(name) ==
    {<<>>} \cup {<<ModelConfig(name, <<"openai">>, p, c)>> :
                    p \in {<<>>} \cup {<<[input |-> t]>> : t \in {"1", "2", "NaN", "n/a"}},
                    c \in {<<>>, <<8192>>, <<32000>>}}

\* models of which price and context length vary, all served by one provider
CompactionModels ==
    {Entry("m1", a) @@ Entry("m2", b) @@ Entry("m3", c) :
        a \in PricedModels("Alpha"), b \in PricedModels("Alpha"),
        c \in PricedModels("Beta")}

Settings(models, registry, custom_providers, api_keys, oauth_tokens) ==
    [models |-> models, registry |-> registry, custom_providers |-> custom_providers,
     api_keys |-> api_keys, oauth_tokens |-> oauth_tokens]

SettingsSpace ==
    {Settings(m, r, c, k, o) :
        m \in RegistryModels, r \in Registries, c \in CustomProviderMaps,
        k \in ApiKeyMaps, o \in OAuthTokenMaps}
    \cup
    {Settings(m, <<OpenAI, Ollama>>, <<>>, "openai" :> Secret, <<>>) :
        m \in CompactionModels}

\* the identifiers a caller passes
Identifiers ==
    {<<"m1">>, <<"m9">>, <<"m1", "@", "openai">>, <<"m9", "@", "openai">>, <<"m1", "@", "nowhere">>, <<"m1", "@", "custom">>,
     <<"m1", "@", "openai", "@", "x">>}

Strategies == {"AnyAvailable", "Compaction"}

\* the orders in which a HashMap may yield the elements of S
Orders(S) ==
    {f \in [1..Cardinality(S) -> S] : \A i, j \in 1..Cardinality(S) : i # j => f[i] # f[j]}

\* the merged credential map of compute_available_models
credentials(w) == merge_oauth_tokens(w.api_keys, w.oauth_tokens)

InitResolver ==
    /\ pc = "resolver"
    /\ result = "pending"
    /\ rest = <<>>
    /\ received = <<>>
    /\ upstream = "live"
    /\ buffer = <<>>
    /\ state = DefaultState
    /\ events = <<>>
    /\ produced = <<>>
    /\ decoded = <<>>
    /\ frames = <<>>
    /\ http_requests = 0
    /\ empty_chunks = 0
    /\ request = <<>>
    /\ spans = <<>>
    /\ gateway = <<>>
    /\ callback = <<>>
    /\ settings \in SettingsSpace
    /\ resolution = <<>>
    /\ wire = <<>>
    /\ sse = <<>>
    /\ keep_awake = <<>>
    /\ desktop = <<>>
    /\ oauth = <<>>
    /\ fs = <<>>
    /\ throttler = <<>>
    /\ tracer = <<>>
    /\ cache = <<>>

\* resolve_model_identifier(api_keys, registry, preferred, strategy)
ResolveModelIdentifier ==
    /\ pc = "resolver"
    /\ resolution = <<>>
    /\ \E preferred \in {<<>>} \cup {<<i>> : i \in Identifiers}, strategy \in Strategies :
        \E values_order \in Orders(model_map_values(settings.models, credentials(settings),
                                       settings.registry, settings.custom_providers)) :
            \E available \in {compute_available_models_internal(values_order)} :
                \E custom_order \in Orders(DOMAIN settings.custom_providers) :
                    resolution' =
                        [call |-> "resolve_model_identifier", preferred |-> preferred,
                         strategy |-> strategy, available |-> available,
                         returned |-> resolve_model_identifier(settings, preferred, strategy,
                                                               available, custom_order)]
    /\ UNCHANGED <<settings, wire, sse, buffer, decoded, frames, keep_awake, desktop, oauth,
                   fs, throttler, tracer, cache,
                     request, spans, gateway, callback>>
    /\ UNCHANGED stream_vars

\* ModelRegistry::get_model_provider(model_identifier, api_keys, ..)
GetModelProvider ==
    /\ pc = "resolver"
    /\ resolution = <<>>
    /\ \E model_identifier \in Identifiers :
        \E custom_order \in Orders(DOMAIN settings.custom_providers) :
            resolution' =
                [call |-> "get_model_provider", model_identifier |-> model_identifier,
                 returned |-> get_model_provider(model_identifier, settings.api_keys,
                                                 settings.registry, settings.custom_providers,
                                                 settings.models, custom_order)]
    /\ UNCHANGED <<settings, wire, sse, buffer, decoded, frames, keep_awake, desktop, oauth,
                   fs, throttler, tracer, cache,
                     request, spans, gateway, callback>>
    /\ UNCHANGED stream_vars

NextResolver ==
    \/ ResolveModelIdentifier
    \/ GetModelProvider

ResolverSpec == InitResolver /\ [][NextResolver]_vars

---------------------------------------------------------------------------
(* Properties.                                                             *)

\* the positions of seq that hold a ToolCall built from the item id
ToolCallsFor(seq, id) ==
    {i \in 1..Len(seq) : seq[i].type = "ToolCall" /\ seq[i].item = id}

IsFrameFor(f, type, id) == Str(f.data, "type") = type /\ Str(f.data, "item_id") = id

IsDeltaFor(f, id) == IsFrameFor(f, "response.function_call_arguments.delta", id)

IsDoneFor(f, id) == IsFrameFor(f, "response.function_call_arguments.done", id)

\* the delta strings of the delta frames for id in the history, concatenated
RECURSIVE DeltasFor(_, _)
DeltasFor(hist, id) ==
    IF hist = <<>> THEN <<>>
    ELSE (IF IsDeltaFor(Head(hist), id) THEN Chars(Head(hist).data, "delta") ELSE <<>>)
         \o DeltasFor(Tail(hist), id)

Terminal(e) == e.type \in {"Done", "Error"}

\* the failures of stream_completion that emit an Error event, and their messages
TerminalFailures == {"http_error", "timeout", "stream_error", "utf8", "parse"}

LoopFailures == TerminalFailures \ {"http_error"}

FailureMessage(r) ==
    CASE r = "http_error" -> "HTTP 500: body"
      [] r = "timeout" -> TimeoutMessage
      [] r = "stream_error" -> "Stream error"
      [] r = "utf8" -> "Invalid UTF-8 in SSE event"
      [] r = "parse" -> "expected value at line 1 column 1"

\* the failures before a response exists
EarlyFailures == {"resolve_failed", "request_failed"}

DecoderDone(seq) == \E i \in 1..Len(seq) : seq[i].type = "Done"

\* the frames of a byte string that is in the buffer as a whole
RECURSIVE split_frames(_)
split_frames(buf) ==
    LET found == find_sse_delimiter(buf)
    IN  IF found = <<>> THEN <<>>
        ELSE <<SubSeq(buf, 1, found[1].idx)>>
             \o split_frames(SubSeq(buf, found[1].idx + found[1].len + 1, Len(buf)))

\* C1: over any sequence of frames decoded against one ProtocolStreamState the
\* decoder produces at most one ToolCall event per item id, and
\* emitted_tool_calls only grows.
C1_AtMostOneToolCall ==
    [][/\ \A id \in Ids : Cardinality(ToolCallsFor(produced', id)) <= 1
       /\ state.emitted_tool_calls \subseteq state'.emitted_tool_calls]_vars

\* an item already emitted received a second named done frame
C1_Witness ==
    \E id \in Ids :
        /\ Cardinality(ToolCallsFor(produced, id)) = 1
        /\ id \in state.emitted_tool_calls
        /\ Cardinality({k \in 1..Len(decoded) :
                            IsDoneFor(decoded[k], id) /\ decoded[k].data.name = "f"}) >= 2

\* C2 (as stated), for the requests that got an HTTP response: when the request
\* has returned, the channel holds exactly one terminal event (Done or Error)
\* and it is the last event.
C2_ExactlyOneTerminalEvent ==
    (pc = "returned" /\ result \notin EarlyFailures) =>
        /\ events # <<>>
        /\ {i \in 1..Len(events) : Terminal(events[i])} = {Len(events)}

\* C3 (as stated): on every exit of the read loop, the error returns included,
\* the last event on the channel is the final Done.
C3_FinalDoneOnEveryExit ==
    (pc = "returned" /\ result \in {"ok"} \cup LoopFailures) =>
        events # <<>> /\ Last(events) = Done(state.finish_reason)

\* C3 (amended): the step that leaves the read loop at the end of the stream
\* appends exactly the final Done{state.finish_reason}, whatever the decoder
\* produced before; a step that leaves it through an error return ends with
\* the Error event and appends no Done after it.
C3_FinalDoneAtEndOfStream ==
    [][(pc = "stream" /\ pc' = "returned") =>
          IF result' = "ok"
          THEN events' = Append(events, Done(state.finish_reason))
          ELSE Last(events') = Error(FailureMessage(result'))]_vars

\* the stream ended after the decoder had produced its own Done
C3_Witness ==
    /\ pc = "returned" /\ result = "ok"
    /\ DecoderDone(produced)
    /\ Cardinality({i \in 1..Len(events) : events[i].type = "Done"}) >= 2

C4_State ==
    /\ http_requests <= 1
    /\ result \in TerminalFailures =>
          /\ pc = "returned"
          /\ events # <<>>
          /\ {i \in 1..Len(events) : events[i] = Error(FailureMessage(result))}
                = {Len(events)}
    /\ \A i \in 1..Len(events) : \A r \in TerminalFailures :
          events[i] = Error(FailureMessage(r)) => result = r

\* C4: an HTTP status >= 400, the inter-chunk timeout, a transport read
\* error, invalid UTF-8 in a frame and a decoder Err each emit exactly one
\* Error event, as the last event, and return failure; no frame is decoded
\* after the failure, nothing happens after the return, and at most one HTTP
\* request is sent.
C4_TerminalFailure ==
    [][/\ C4_State'
       /\ pc = "returned" => UNCHANGED vars
       /\ (result = "pending" /\ result' \in {"http_error", "timeout", "stream_error"}) =>
             /\ events' = Append(events, Error(FailureMessage(result')))
             /\ decoded' = decoded /\ frames' = frames /\ state' = state
       /\ (result = "pending" /\ result' = "utf8") => ~valid_utf8(Last(frames'))
       /\ (result = "pending" /\ result' = "parse") =>
             /\ parse_sse_event(Last(frames')) = <<Last(decoded')>>
             /\ Has(Last(decoded').data, "malformed")]_vars

\* a decoder Err in the first frame of a chunk that holds a second frame
C4_Witness ==
    /\ result = "parse"
    /\ find_sse_delimiter(buffer) # <<>>
    /\ Len(decoded) = 1

\* C5 (as stated): a resolution failure and a failure to send the request each
\* put exactly one Error event on the channel; a resolution failure precedes
\* any network call.
C5_EarlyFailureSurfaced ==
    (pc = "returned" /\ result \in EarlyFailures) =>
        /\ Len(events) = 1 /\ events[1].type = "Error"
        /\ result = "resolve_failed" => http_requests = 0

\* C6: the channel carries the decoder's events in the order the decoder
\* pushed them, frame after frame, nothing reordered, duplicated or dropped;
\* the only other event is the one stream_completion adds when it returns.
C6_OrderPreserved ==
    /\ pc = "stream" => events = produced /\ state.pending_events = <<>>
    /\ (pc = "returned" /\ result \in {"ok"} \cup LoopFailures) =>
          events # <<>> /\ Front(events) = produced

\* two frames decoded, one of them with a returned event and a pending one
C6_Witness ==
    /\ pc = "stream"
    /\ Len(decoded) >= 2
    /\ Len(produced) >= 3

\* C7: while no done frame has arrived for an item id, the accumulated
\* arguments of the id are the concatenation of its delta strings in arrival
\* order, whatever other frames are interleaved and also after its emission.
C7_AppendOnlyArguments ==
    \A id \in Ids :
        ((\E k \in 1..Len(decoded) : IsDeltaFor(decoded[k], id))
            /\ ~\E k \in 1..Len(decoded) : IsDoneFor(decoded[k], id)) =>
        /\ id \in DOMAIN state.tool_calls
        /\ state.tool_calls[id].arguments = DeltasFor(decoded, id)

\* an emitted item got a further delta, with a delta of the other item between
C7_Witness ==
    \E id \in Ids : \E i, j, k \in 1..Len(decoded) :
        /\ i < j /\ j < k
        /\ IsDeltaFor(decoded[i], id) /\ IsDeltaFor(decoded[k], id)
        /\ \E other \in Ids \ {id} : IsDeltaFor(decoded[j], other)
        /\ ~\E d \in 1..Len(decoded) : IsDoneFor(decoded[d], id)
        /\ id \in state.emitted_tool_calls
        /\ ~serde_json_from_str(state.tool_calls[id].arguments).ok
        /\ state.tool_calls[id].arguments = DeltasFor(decoded, id)

\* C8 (as stated): the frames cut so far, with those still to be cut from the
\* buffer, are the frames of the bytes received when they arrive as one chunk.
C8_SplitIndependent ==
    pc = "stream" => frames \o split_frames(buffer) = split_frames(received)

\* C9 (as stated): once the decoder has produced a Done, it is the last event
\* the decoder produced, no further chunk is read, no further frame is
\* decoded, and the only event still emitted is the final Done.
C9_DoneEndsLoop ==
    [][/\ \A i \in 1..Len(produced') : produced'[i].type = "Done" => i = Len(produced')
       /\ DecoderDone(produced) =>
             /\ received' = received
             /\ decoded' = decoded
             /\ events' \in {events, Append(events, Done(state.finish_reason))}]_vars

\* C10 (as stated): a request that ended on the inter-chunk timeout has put
\* exactly one Error event on the channel, and it is the last event.
C10_TimeoutOneError ==
    (pc = "returned" /\ result = "timeout") =>
        /\ events # <<>>
        /\ {i \in 1..Len(events) : events[i].type = "Error"} = {Len(events)}

---------------------------------------------------------------------------
(* Properties of the registry and the resolver.                            *)

ProviderIds == {"openai", "ollama", "lmstudio", "keyless", "talkcody", "custom", "nowhere"}

ResolvedBy(strategy) ==
    /\ pc = "resolver" /\ resolution # <<>>
    /\ resolution.call = "resolve_model_identifier"
    /\ resolution.strategy = strategy

\* the preferred model of the call, if any, does not resolve
NoPreferred ==
    \/ resolution.preferred = <<>>
    \/ try_resolve_model(settings, resolution.preferred[1], <<>>) = <<>>

\* the available model-provider set of the settings
AvailableSet ==
    model_map_values(settings.models, credentials(settings), settings.registry,
                     settings.custom_providers)

Returns(a) == resolution.returned = Ok(<<a.key, "@", a.provider>>)

ContextOf(a) ==
    IF settings.models[a.key].context_length = <<>> THEN 0
    ELSE settings.models[a.key].context_length[1]

\* the input price as a number; unknown is +infinity
PriceOf(a) ==
    IF a.input_pricing = <<>> \/ parse_f64(a.input_pricing[1]) = <<>> THEN Infinity
    ELSE parse_f64(a.input_pricing[1])[1]

\* C11 (as stated): with no resolvable preferred model the Compaction strategy
\* returns an available model of the greatest context length (unknown is 0)
\* such that no available model of that context length has a lower input price
\* (unknown is +infinity), and fails with "No available model ..." iff no
\* model is available.
C11_CompactionChoice ==
    (ResolvedBy("Compaction") /\ NoPreferred) =>
        IF AvailableSet = {}
        THEN resolution.returned = Err("No available model for compaction")
        ELSE \E a \in AvailableSet :
                /\ Returns(a)
                /\ \A b \in AvailableSet :
                      /\ ContextOf(b) <= ContextOf(a)
                      /\ ContextOf(b) = ContextOf(a) => ~f64_less(PriceOf(b), PriceOf(a))

\* the availability rule, with "non-empty" read as the empty string only
RuleNonEmpty(p, api_keys) ==
    IF p \in DOMAIN settings.custom_providers
    THEN settings.custom_providers[p].enabled /\ settings.custom_providers[p].api_key # <<>>
    ELSE /\ \E i \in DOMAIN settings.registry : settings.registry[i].id = p
         /\ \A i \in DOMAIN settings.registry : settings.registry[i].id = p =>
               CASE settings.registry[i].auth_type = "None" /\ p \in {"ollama", "lmstudio"} ->
                        p \in DOMAIN api_keys /\ api_keys[p] = Enabled
                 [] settings.registry[i].auth_type = "None" /\ p \notin {"ollama", "lmstudio"} ->
                        TRUE
                 [] settings.registry[i].auth_type = "TalkCodyJwt" -> TRUE
                 [] OTHER -> p \in DOMAIN api_keys /\ api_keys[p] # <<>>

\* the availability rule, with blank (whitespace only) values counted as empty
RuleNonBlank(p, api_keys) ==
    IF p \in DOMAIN settings.custom_providers
    THEN /\ settings.custom_providers[p].enabled
         /\ \E i \in DOMAIN settings.custom_providers[p].api_key :
               settings.custom_providers[p].api_key[i] # " "
    ELSE /\ \E i \in DOMAIN settings.registry : settings.registry[i].id = p
         /\ \A i \in DOMAIN settings.registry : settings.registry[i].id = p =>
               CASE settings.registry[i].auth_type = "None" /\ p \in {"ollama", "lmstudio"} ->
                        p \in DOMAIN api_keys /\ api_keys[p] = Enabled
                 [] settings.registry[i].auth_type = "None" /\ p \notin {"ollama", "lmstudio"} ->
                        TRUE
                 [] settings.registry[i].auth_type = "TalkCodyJwt" -> TRUE
                 [] OTHER -> p \in DOMAIN api_keys /\ \E i2 \in DOMAIN api_keys[p] :
                                                          api_keys[p][i2] # " "

\* C12: with no resolvable preferred model the AnyAvailable strategy returns
\* model@provider for the first element of the available set sorted by display
\* name, so for an element of the least display name; it fails with "No
\* available model ..." iff the set is empty; the provider of every pair of the
\* set satisfies the availability rule.
C12_AnyAvailableChoice ==
    (ResolvedBy("AnyAvailable") /\ NoPreferred) =>
        /\ \A a \in AvailableSet : RuleNonBlank(a.provider, credentials(settings))
        /\ {resolution.available[i] : i \in DOMAIN resolution.available} = AvailableSet
        /\ Len(resolution.available) = Cardinality(AvailableSet)
        /\ \A i, j \in DOMAIN resolution.available :
              i < j => NameRank(resolution.available[i].name)
                          <= NameRank(resolution.available[j].name)
        /\ IF AvailableSet = {}
           THEN resolution.returned = Err("No available model for the requested operation")
           ELSE /\ Returns(resolution.available[1])
                /\ \A b \in AvailableSet :
                      NameRank(resolution.available[1].name) <= NameRank(b.name)

\* two models are available and the one of the greater key has the lesser name
C12_Witness ==
    /\ ResolvedBy("AnyAvailable") /\ resolution.preferred = <<<<"m9">>>>
    /\ \E a, b \in AvailableSet :
          /\ a.key = "m1" /\ b.key = "m2"
          /\ NameRank(b.name) < NameRank(a.name)
          /\ Returns(b)

\* get_model_provider was called with a bare model key of the configuration
ProviderOfConfigured ==
    /\ pc = "resolver" /\ resolution # <<>>
    /\ resolution.call = "get_model_provider"
    /\ Len(resolution.model_identifier) = 1
    /\ resolution.model_identifier[1] \in DOMAIN settings.models

Declared == settings.models[resolution.model_identifier[1]].providers

\* C13: get_model_provider with a bare model key of the configuration returns
\* the first provider of the model's declared list that is available, whatever
\* the order of the registry, and an error when none of them is available.
C13_DeclaredOrderDecides ==
    ProviderOfConfigured =>
        /\ IF \E i \in DOMAIN Declared : RuleNonBlank(Declared[i], settings.api_keys)
           THEN \E i \in DOMAIN Declared :
                   /\ RuleNonBlank(Declared[i], settings.api_keys)
                   /\ \A j \in 1..(i - 1) : ~RuleNonBlank(Declared[j], settings.api_keys)
                   /\ resolution.returned
                        = Ok(<<resolution.model_identifier, <<Declared[i]>>>>)
           ELSE ~resolution.returned.ok
        /\ \A order \in Orders({settings.registry[i] : i \in DOMAIN settings.registry}) :
              \A custom_order \in Orders(DOMAIN settings.custom_providers) :
                 get_model_provider(resolution.model_identifier, settings.api_keys, order,
                                    settings.custom_providers, settings.models, custom_order)
                    = resolution.returned

\* two declared providers are available; the registry lists them the other way
C13_Witness ==
    /\ ProviderOfConfigured
    /\ Declared = <<"ollama", "openai">>
    /\ settings.registry[1].id = "openai"
    /\ RuleNonBlank("ollama", settings.api_keys)
    /\ RuleNonBlank("openai", settings.api_keys)
    /\ resolution.returned = Ok(<<<<"m1">>, <<"ollama">>>>)

\* the preferred identifier of the call has the form key@provider
QualifiedPreferred ==
    /\ resolution.preferred # <<>>
    /\ Len(split_at(resolution.preferred[1], <<>>)) = 2
    /\ Len(split_at(resolution.preferred[1], <<>>)[2]) = 1

PreferredKey == split_at(resolution.preferred[1], <<>>)[1]

PreferredProvider == split_at(resolution.preferred[1], <<>>)[2][1]

\* C14 (as stated): a preferred key@provider is returned unchanged only when
\* the key exists, the provider exists and the provider is available; in every
\* other case the call does not fail on it and returns what the strategy
\* returns.
C14_QualifiedPreferredValidated ==
    \A strategy \in Strategies :
        (ResolvedBy(strategy) /\ QualifiedPreferred) =>
            \/ /\ contains_key(settings.models, PreferredKey)
               /\ \/ RuleNonBlank(PreferredProvider, settings.api_keys)
                  \/ RuleNonBlank(PreferredProvider, credentials(settings))
            \/ resolution.returned
                 = fallback(strategy, settings.models, resolution.available)

\* C15 (as stated): a custom provider is available iff it is enabled and its
\* stored API key is non-empty; a built-in provider iff its auth type is None
\* (ollama and lmstudio: the stored value is "enabled"), or TalkCodyJwt, or the
\* credential map holds a non-empty credential or OAuth token for it; an
\* unknown id is unavailable.
C15_AvailabilityRule_NonEmpty ==
    pc = "resolver" =>
        \A p \in ProviderIds :
            /\ provider_available(p, settings.api_keys, settings.registry,
                                  settings.custom_providers)
                  <=> RuleNonEmpty(p, settings.api_keys)
            /\ provider_available(p, credentials(settings), settings.registry,
                                  settings.custom_providers)
                  <=> RuleNonEmpty(p, credentials(settings))

\* C15 (amended): the same rule, where a stored key, credential or token counts
\* as non-empty only if it holds a character other than whitespace.
C15_AvailabilityRule ==
    pc = "resolver" =>
        \A p \in ProviderIds :
            /\ provider_available(p, settings.api_keys, settings.registry,
                                  settings.custom_providers)
                  <=> RuleNonBlank(p, settings.api_keys)
            /\ provider_available(p, credentials(settings), settings.registry,
                                  settings.custom_providers)
                  <=> RuleNonBlank(p, credentials(settings))

\* every branch of the rule decides a provider of one configuration: a blank
\* stored key, a local daemon that is enabled, a provider that needs no key
C15_Witness ==
    /\ pc = "resolver"
    /\ "custom" \in DOMAIN settings.custom_providers
    /\ settings.custom_providers["custom"].enabled
    /\ settings.custom_providers["custom"].api_key = Blank
    /\ ~provider_available("custom", settings.api_keys, settings.registry,
                           settings.custom_providers)
    /\ provider_available("ollama", settings.api_keys, settings.registry,
                          settings.custom_providers)
    /\ provider_available("keyless", settings.api_keys, settings.registry,
                          settings.custom_providers)
    /\ ~provider_available("lmstudio", settings.api_keys, settings.registry,
                           settings.custom_providers)
    /\ ~provider_available("nowhere", settings.api_keys, settings.registry,
                           settings.custom_providers)

---------------------------------------------------------------------------
(* The frame decoder on text: find_sse_delimiter and parse_sse_event       *)
(* applied to buffers of single bytes.                                     *)

Byte(c) == [byte |-> c]

Bytes(text) == [i \in DOMAIN text |-> Byte(text[i])]

SP == Byte(" ")

EventPrefix == Bytes(<<"e", "v", "e", "n", "t", ":">>)

DataPrefix == Bytes(<<"d", "a", "t", "a", ":">>)

\* str::strip_prefix: Option<&str>
strip_prefix(line, prefix) ==
    IF Len(line) >= Len(prefix) /\ SubSeq(line, 1, Len(prefix)) = prefix
    THEN <<SubSeq(line, Len(prefix) + 1, Len(line))>>
    ELSE <<>>

\* str::trim on bytes is trim_end after trim_start
RECURSIVE trim_start(_)
trim_start(text) ==
    IF text # <<>> /\ Head(text) \in {SP, CR, LF} THEN trim_start(Tail(text)) ELSE text

RECURSIVE trim_end(_)
trim_end(text) ==
    IF text # <<>> /\ Last(text) \in {SP, CR, LF} THEN trim_end(Front(text)) ELSE text

\* faulty variant of the payload of a data line: every leading space removed
data_of_trimmed(rest_of_line) == trim_start(rest_of_line)

\* rest.strip_prefix(' ').unwrap_or(rest)
data_of(rest_of_line) ==
    IF strip_prefix(rest_of_line, <<SP>>) # <<>>
    THEN strip_prefix(rest_of_line, <<SP>>)[1]
    ELSE rest_of_line

\* the loop over raw.lines(): event and data_lines after the lines of all
RECURSIVE read_lines(_, _, _)
read_lines(all, event, data_lines) ==
    IF all = <<>> THEN [event |-> event, data_lines |-> data_lines]
    ELSE IF strip_prefix(Head(all), EventPrefix) # <<>>
    THEN read_lines(Tail(all), <<trim_end(trim_start(strip_prefix(Head(all), EventPrefix)[1]))>>,
                    data_lines)
    ELSE IF strip_prefix(Head(all), DataPrefix) # <<>>
    THEN read_lines(Tail(all), event,
                    Append(data_lines, data_of(strip_prefix(Head(all), DataPrefix)[1])))
    ELSE read_lines(Tail(all), event, data_lines)

\* data_lines.join("\n")
RECURSIVE join(_)
join(data_lines) ==
    IF Len(data_lines) <= 1 THEN (IF data_lines = <<>> THEN <<>> ELSE data_lines[1])
    ELSE Head(data_lines) \o <<LF>> \o join(Tail(data_lines))

\* parse_sse_event on the bytes of raw: Option<SseEvent>
parse_sse_event_bytes(raw) ==
    LET read == read_lines(lines(raw, <<>>), <<>>, <<>>)
    IN  IF read.data_lines = <<>> THEN <<>>
        ELSE <<[event |-> read.event, data |-> join(read.data_lines)]>>

\* length of the buffers of arbitrary bytes
MaxBuffer == 7

\* number of lines of an event written to the buffer
MaxLines == 3

RECURSIVE Buffers(_)
Buffers(n) ==
    IF n = 0 THEN {<<>>}
    ELSE Buffers(n - 1)
         \cup {Append(b, c) : b \in {x \in Buffers(n - 1) : Len(x) = n - 1},
                              c \in {CR, LF, Byte("a")}}

\* what follows the colon of a line
Rests ==
    {<<>>, <<"a">>, <<" ", "a">>, <<" ", " ", "a">>, <<"a", " ">>, <<"b">>}

\* a line of an event: a field name, the colon, the rest
WireLine(field, rest_of_line) == [field |-> field, rest |-> rest_of_line]

RECURSIVE Events(_)
Events(n) ==
    IF n = 0 THEN {<<>>}
    ELSE Events(n - 1)
         \cup {Append(e, WireLine(f, r)) : e \in {x \in Events(n - 1) : Len(x) = n - 1},
                                           f \in {"event", "data", ""}, r \in Rests}

Eol(eol) == IF eol = "CRLF" THEN <<CR, LF>> ELSE <<LF>>

FieldName(field) ==
    IF field = "event" THEN Bytes(<<"e", "v", "e", "n", "t">>)
    ELSE IF field = "data" THEN Bytes(<<"d", "a", "t", "a">>)
    ELSE <<>>

\* the bytes of an event: each line with its end of line, then an empty line
RECURSIVE Rendered(_, _)
Rendered(event_lines, eol) ==
    IF event_lines = <<>> THEN Eol(eol)
    ELSE FieldName(Head(event_lines).field) \o <<Byte(":")>>
         \o Bytes(Head(event_lines).rest) \o Eol(eol)
         \o Rendered(Tail(event_lines), eol)

InitSse ==
    /\ pc = "sse"
    /\ result = "pending"
    /\ rest = <<>>
    /\ received = <<>>
    /\ upstream = "live"
    /\ \/ wire = <<>> /\ buffer \in Buffers(MaxBuffer)
       \/ /\ wire \in {[lines |-> e, eol |-> eol] :
                          e \in Events(MaxLines) \ {<<>>}, eol \in {"LF", "CRLF"}}
          /\ buffer = Rendered(wire.lines, wire.eol)
    /\ state = DefaultState
    /\ events = <<>>
    /\ produced = <<>>
    /\ decoded = <<>>
    /\ frames = <<>>
    /\ http_requests = 0
    /\ empty_chunks = 0
    /\ request = <<>>
    /\ spans = <<>>
    /\ gateway = <<>>
    /\ callback = <<>>
    /\ settings = <<>>
    /\ resolution = <<>>
    /\ sse = <<>>
    /\ keep_awake = <<>>
    /\ desktop = <<>>
    /\ oauth = <<>>
    /\ fs = <<>>
    /\ throttler = <<>>
    /\ tracer = <<>>
    /\ cache = <<>>

\* find_sse_delimiter(&buffer); with a delimiter the frame before it is
\* drained and the delimiter skipped, as the loop of stream_completion does
FindSseDelimiter ==
    /\ pc = "sse"
    /\ \E found \in {find_sse_delimiter(buffer)} :
          /\ sse' = Append(sse, [call |-> "find_sse_delimiter", buf |-> buffer,
                                 returned |-> found])
          /\ IF found = <<>>
             THEN pc' = "sse_wait" /\ UNCHANGED <<buffer, frames>>
             ELSE /\ frames' = Append(frames, SubSeq(buffer, 1, found[1].idx))
                  /\ buffer' = SubSeq(buffer, found[1].idx + found[1].len + 1, Len(buffer))
                  /\ pc' = "sse_frame"
    /\ UNCHANGED <<settings, resolution, wire, decoded, result, rest, received, upstream,
                   state, events, produced, http_requests, empty_chunks>>
    /\ UNCHANGED <<keep_awake, desktop, oauth, fs, throttler, tracer, cache,
      request, spans, gateway, callback>>

\* parse_sse_event(&event_str) on the frame that was drained
ParseSseEvent ==
    /\ pc = "sse_frame"
    /\ sse' = Append(sse, [call |-> "parse_sse_event", raw |-> Last(frames),
                           returned |-> parse_sse_event_bytes(Last(frames))])
    /\ pc' = "sse"
    /\ UNCHANGED <<settings, resolution, wire, buffer, frames, decoded, result, rest,
                   received, upstream, state, events, produced, http_requests,
                   empty_chunks>>
    /\ UNCHANGED <<keep_awake, desktop, oauth, fs, throttler, tracer, cache,
      request, spans, gateway, callback>>

NextSse ==
    \/ FindSseDelimiter
    \/ ParseSseEvent

SseSpec == InitSse /\ [][NextSse]_vars

---------------------------------------------------------------------------
(* Properties of the frame decoder on text.                                *)

StartsAt(buf, i, w) == i + Len(w) - 1 <= Len(buf) /\ SubSeq(buf, i, i + Len(w) - 1) = w

\* C16: find_sse_delimiter returns the first CR LF CR LF (length 4) whenever
\* the buffer holds one anywhere, also after an earlier LF LF; otherwise the
\* first LF LF (length 2); and nothing when the buffer holds neither.
C16_DelimiterChoice ==
    \A n \in DOMAIN sse :
        sse[n].call = "find_sse_delimiter" =>
            IF \E i \in DOMAIN sse[n].buf : StartsAt(sse[n].buf, i, <<CR, LF, CR, LF>>)
            THEN \E i \in DOMAIN sse[n].buf :
                    /\ StartsAt(sse[n].buf, i, <<CR, LF, CR, LF>>)
                    /\ \A j \in 1..(i - 1) : ~StartsAt(sse[n].buf, j, <<CR, LF, CR, LF>>)
                    /\ sse[n].returned = <<[idx |-> i - 1, len |-> 4]>>
            ELSE IF \E i \in DOMAIN sse[n].buf : StartsAt(sse[n].buf, i, <<LF, LF>>)
            THEN \E i \in DOMAIN sse[n].buf :
                    /\ StartsAt(sse[n].buf, i, <<LF, LF>>)
                    /\ \A j \in 1..(i - 1) : ~StartsAt(sse[n].buf, j, <<LF, LF>>)
                    /\ sse[n].returned = <<[idx |-> i - 1, len |-> 2]>>
            ELSE sse[n].returned = <<>>

\* a buffer with LF LF ahead of CR LF CR LF: the later delimiter is returned
C16_Witness ==
    \E n \in DOMAIN sse :
        /\ sse[n].call = "find_sse_delimiter"
        /\ StartsAt(sse[n].buf, 2, <<LF, LF>>)
        /\ sse[n].returned = <<[idx |-> 3, len |-> 4]>>

\* the rests of the lines of the event written to the buffer that carry field
RestsOf(field) ==
    SelectSeq(wire.lines, LAMBDA l : l.field = field)

\* a rest without its first byte if that is a space
WithoutOneSpace(rest_of_line) ==
    IF rest_of_line # <<>> /\ rest_of_line[1] = " " THEN Tail(rest_of_line) ELSE rest_of_line

RECURSIVE JoinedData(_)
JoinedData(rests) ==
    IF rests = <<>> THEN <<>>
    ELSE Bytes(WithoutOneSpace(Head(rests)))
         \o (IF Len(rests) = 1 THEN <<>> ELSE <<LF>> \o JoinedData(Tail(rests)))

\* C17: parse_sse_event yields no event when the text has no data: line; else
\* the event name is that of the last event: line (none when there is none)
\* and the data is every data: line's payload in order, each without at most
\* one leading space, joined by newlines.
C17_ParsedEvent ==
    \A n \in DOMAIN sse :
        (wire # <<>> /\ sse[n].call = "parse_sse_event") =>
            IF RestsOf("data") = <<>> THEN sse[n].returned = <<>>
            ELSE /\ Len(sse[n].returned) = 1
                 /\ sse[n].returned[1].data = JoinedData([i \in DOMAIN RestsOf("data") |->
                                                            RestsOf("data")[i].rest])
                 /\ IF RestsOf("event") = <<>> THEN sse[n].returned[1].event = <<>>
                    ELSE sse[n].returned[1].event
                            = <<Bytes(Trim(Last(RestsOf("event")).rest))>>

\* two data: lines, the payloads after two spaces and after none, then an
\* event: line, each line ended by CR LF
C17_Witness ==
    /\ wire # <<>>
    /\ wire.lines = <<WireLine("data", <<" ", " ", "a">>), WireLine("data", <<"b">>),
                      WireLine("event", <<" ", "a">>)>>
    /\ wire.eol = "CRLF"
    /\ \E n \in DOMAIN sse :
          /\ sse[n].call = "parse_sse_event"
          /\ sse[n].returned = <<[event |-> <<Bytes(<<"a">>)>>,
                                  data |-> Bytes(<<" ", "a">>) \o <<LF>> \o Bytes(<<"b">>)]>>

---------------------------------------------------------------------------
(* Properties of the tool calls of the OAuth/Codex decoder.                *)

\* the step decodes one more frame
Fed == Len(decoded') = Len(decoded) + 1

\* the events the decoder pushed in the step
Pushed == SubSeq(produced', Len(produced) + 1, Len(produced'))

ToolCallIds(seq) ==
    LET calls == SelectSeq(seq, LAMBDA e : e.type = "ToolCall")
    IN  [i \in DOMAIN calls |-> calls[i].tool_call_id]

OutOfOrderDone ==
    <<AddedFrame("b", 1), AddedFrame("a", 0), DoneFrame("b", "f", <<>>),
      DoneFrame("a", "f", <<"{", "}">>)>>

\* C18: a done frame for an item that has a tool name and was not emitted
\* produces the item's ToolCall as the first ToolCall of that frame, ahead of
\* the ToolCalls the forced sweep adds for other items, whatever the indices;
\* added b at index 1, added a at index 0, done b, done a gives the ToolCalls
\* call_b, call_a.
C18_DoneItemFirst ==
    [][/\ \A id \in Ids :
             (/\ Fed
              /\ IsDoneFor(Last(decoded'), id)
              /\ id \notin state.emitted_tool_calls
              /\ ~NameBlank(state'.tool_calls[id].tool_name)) =>
                 /\ ToolCallsFor(Pushed, id) # {}
                 /\ \A i \in 1..Len(Pushed) :
                       Pushed[i].type = "ToolCall" => \A j \in ToolCallsFor(Pushed, id) : j <= i
       /\ (Fed /\ [i \in DOMAIN decoded' |-> decoded'[i].data] = OutOfOrderDone) =>
             ToolCallIds(produced') = <<"call_b", "call_a">>]_vars

\* the four frames were decoded; done b produced both ToolCalls, b's first
C18_Witness ==
    /\ pc = "decoder"
    /\ [i \in DOMAIN decoded |-> decoded[i].data] = OutOfOrderDone
    /\ ToolCallIds(produced) = <<"call_b", "call_a">>

\* argument text that is a JSON document: the empty object, blanks allowed
ValidJson(arguments) == SelectSeq(arguments, LAMBDA c : c # " ") = <<"{", "}">>

\* id takes a slot of the order, was not emitted, has a tool name and its
\* accumulated arguments are valid JSON
Complete(st, emitted, id) ==
    /\ \E i \in DOMAIN st.tool_call_order : st.tool_call_order[i] = id
    /\ id \notin emitted
    /\ id \in DOMAIN st.tool_calls
    /\ st.tool_calls[id].tool_name # ""
    /\ ValidJson(st.tool_calls[id].arguments)

\* C19: a delta frame produces a ToolCall for an item of the order that was
\* not emitted only if the item has a non-empty tool name and arguments that
\* are non-empty valid JSON; an item without them is skipped, stays out of
\* emitted_tool_calls and is emitted by a later frame that completes it.
C19_DeltaEmitsComplete ==
    [][(Fed /\ Str(Last(decoded').data, "type") = "response.function_call_arguments.delta") =>
          \A id \in Ids :
             /\ ToolCallsFor(Pushed, id) # {} <=> Complete(state', state.emitted_tool_calls, id)
             /\ (id \notin state.emitted_tool_calls /\ ToolCallsFor(Pushed, id) = {}) =>
                   id \notin state'.emitted_tool_calls]_vars

\* the item was skipped at its first delta and emitted at its second
C19_Witness ==
    /\ pc = "decoder"
    /\ [i \in DOMAIN decoded |-> decoded[i].data]
          = <<AddedFrame("a", -1), DeltaFrame("a", <<"{">>, -1), DeltaFrame("a", <<"}">>, -1)>>
    /\ produced = <<ToolCall("a", [tool_call_id |-> "call_a", tool_name |-> "f",
                                   arguments |-> <<"{", "}">>],
                             [json |-> "object", members |-> {}])>>

\* C20 (as stated): a done frame for an item id that is in emitted_tool_calls
\* produces no event of any kind, for that id or any other, and leaves the
\* tool-call state as it was.
C20_DoneOfEmittedSilent ==
    [][\A id \in Ids :
          (Fed /\ IsDoneFor(Last(decoded'), id) /\ id \in state.emitted_tool_calls) =>
             /\ Pushed = <<>>
             /\ state'.emitted_tool_calls = state.emitted_tool_calls
             /\ state'.tool_calls = state.tool_calls
             /\ state'.tool_call_order = state.tool_call_order]_vars

---------------------------------------------------------------------------
(* KeepAwakeState of src/keep_awake.rs: a counter behind one mutex.  Each  *)
(* call holds the lock from its first statement to its return, so a call   *)
(* is one step.                                                            *)

\* the variables of the stream, the decoder, the resolver and the frame decoder
base_vars ==
    <<result, rest, received, upstream, state, events, produced, http_requests,
      empty_chunks, buffer, decoded, frames, settings, resolution, wire, sse,
      request, spans, gateway, callback>>

\* number of calls made on one KeepAwakeState
MaxCalls == 7

\* faulty variant of release: no test for a count of zero
release_unchecked(count) == [count |-> count - 1, returned |-> count - 1 = 0]

\* KeepAwakeState::acquire: the count after the call and the value returned
acquire(count) == [count |-> count + 1, returned |-> count + 1 = 1]

\* KeepAwakeState::release
release(count) ==
    IF count = 0 THEN [count |-> 0, returned |-> FALSE]
    ELSE [count |-> count - 1, returned |-> count - 1 = 0]

\* KeepAwakeState::is_preventing_sleep
is_preventing_sleep(count) == count > 0

InitKeepAwake ==
    /\ pc = "keep_awake"
    /\ result = "pending"
    /\ rest = <<>>
    /\ received = <<>>
    /\ upstream = "live"
    /\ buffer = <<>>
    /\ state = DefaultState
    /\ events = <<>>
    /\ produced = <<>>
    /\ decoded = <<>>
    /\ frames = <<>>
    /\ http_requests = 0
    /\ empty_chunks = 0
    /\ request = <<>>
    /\ spans = <<>>
    /\ gateway = <<>>
    /\ callback = <<>>
    /\ settings = <<>>
    /\ resolution = <<>>
    /\ wire = <<>>
    /\ sse = <<>>
    /\ keep_awake = [ref_count |-> 0, calls |-> <<>>]
    /\ desktop = <<>>
    /\ oauth = <<>>
    /\ fs = <<>>
    /\ throttler = <<>>
    /\ tracer = <<>>
    /\ cache = <<>>

\* a call of one of the threads that share the state; calls is history
KeepAwakeCall(call, after, returned) ==
    /\ pc = "keep_awake"
    /\ Len(keep_awake.calls) < MaxCalls
    /\ keep_awake' = [ref_count |-> after,
                      calls |-> Append(keep_awake.calls,
                                       [call |-> call, before |-> keep_awake.ref_count,
                                        returned |-> returned])]
    /\ UNCHANGED base_vars
    /\ UNCHANGED <<pc, desktop, oauth, fs, throttler, tracer, cache>>

Acquire ==
    KeepAwakeCall("acquire", acquire(keep_awake.ref_count).count,
                  acquire(keep_awake.ref_count).returned)

Release ==
    KeepAwakeCall("release", release(keep_awake.ref_count).count,
                  release(keep_awake.ref_count).returned)

IsPreventingSleep ==
    KeepAwakeCall("is_preventing_sleep", keep_awake.ref_count,
                  is_preventing_sleep(keep_awake.ref_count))

NextKeepAwake ==
    \/ Acquire
    \/ Release
    \/ IsPreventingSleep

KeepAwakeSpec == InitKeepAwake /\ [][NextKeepAwake]_vars

---------------------------------------------------------------------------
(* Properties of KeepAwakeState.                                           *)

\* the calls of the history that are call and satisfy the test on the count
\* they found
CallsThat(call, Found(_)) ==
    Cardinality({i \in DOMAIN keep_awake.calls :
                    keep_awake.calls[i].call = call /\ Found(keep_awake.calls[i].before)})

\* C21: the count never goes below zero; acquire returns true exactly when the
\* count goes from 0 to 1; release returns true exactly when it goes from 1 to
\* 0, false while holders remain, and false at 0, where the count stays 0; the
\* count is the number of acquires minus the number of releases that found a
\* positive count; is_preventing_sleep holds iff the count is positive.
C21_ReferenceCounter ==
    pc = "keep_awake" =>
        /\ keep_awake.ref_count >= 0
        /\ keep_awake.ref_count
              = CallsThat("acquire", LAMBDA c : TRUE) - CallsThat("release", LAMBDA c : c > 0)
        /\ \A i \in DOMAIN keep_awake.calls :
              LET c == keep_awake.calls[i]
                  after == IF i = Len(keep_awake.calls) THEN keep_awake.ref_count
                           ELSE keep_awake.calls[i + 1].before
              IN  CASE c.call = "acquire" ->
                          after = c.before + 1 /\ (c.returned <=> (c.before = 0 /\ after = 1))
                    [] c.call = "release" ->
                          /\ after = (IF c.before = 0 THEN 0 ELSE c.before - 1)
                          /\ c.returned <=> (c.before = 1 /\ after = 0)
                    [] OTHER -> after = c.before /\ (c.returned <=> c.before > 0)

\* two holders; a release that leaves one, the last release, a release at zero
C21_Witness ==
    /\ pc = "keep_awake"
    /\ Len(keep_awake.calls) = 6
    /\ [i \in 1..6 |-> keep_awake.calls[i].call]
          = <<"acquire", "acquire", "release", "release", "release", "is_preventing_sleep">>
    /\ [i \in 1..6 |-> keep_awake.calls[i].returned]
          = <<TRUE, FALSE, FALSE, TRUE, FALSE, FALSE>>
    /\ keep_awake.ref_count = 0

---------------------------------------------------------------------------
(* KeepAwakeState of desktop/src/keep_awake.rs with process_enabled: the   *)
(* count and the child process sit behind two mutexes, and a call takes    *)
(* them one after the other.  A step is one critical section.              *)

Threads == {"t1", "t2"}

InitDesktop ==
    /\ pc = "desktop"
    /\ result = "pending"
    /\ rest = <<>>
    /\ received = <<>>
    /\ upstream = "live"
    /\ buffer = <<>>
    /\ state = DefaultState
    /\ events = <<>>
    /\ produced = <<>>
    /\ decoded = <<>>
    /\ frames = <<>>
    /\ http_requests = 0
    /\ empty_chunks = 0
    /\ request = <<>>
    /\ spans = <<>>
    /\ gateway = <<>>
    /\ callback = <<>>
    /\ settings = <<>>
    /\ resolution = <<>>
    /\ wire = <<>>
    /\ sse = <<>>
    /\ keep_awake = <<>>
    /\ desktop = [ref_count |-> 0, process |-> FALSE,
                  at |-> [t \in Threads |-> "idle"],
                  before |-> [t \in Threads |-> 0],
                  alone |-> [t \in Threads |-> TRUE],
                  calls |-> 0, last |-> <<>>]
    /\ oauth = <<>>
    /\ fs = <<>>
    /\ throttler = <<>>
    /\ tracer = <<>>
    /\ cache = <<>>

\* the state after thread t has begun a call that found count and left after;
\* before and alone are history: the count found, and whether no other call
\* was in progress at any time of the call
Begun(t, after, at) ==
    [desktop EXCEPT !.ref_count = after, !.at[t] = at, !.before[t] = desktop.ref_count,
                    !.calls = @ + 1,
                    !.alone = [u \in Threads |->
                                  IF u = t THEN \A v \in Threads \ {t} : desktop.at[v] = "idle"
                                  ELSE desktop.at[u] = "idle"]]

\* the state d after the call of thread t has returned; last is history
Returned(d, t, call, returned) ==
    [d EXCEPT !.at[t] = "idle",
              !.last = <<[call |-> call, returned |-> returned, before |-> d.before[t],
                          after |-> d.ref_count, alone |-> d.alone[t]]>>]

\* acquire, lines 74-78 and 91-96: the count goes up; not the first: Ok(false)
DesktopAcquire(t) ==
    /\ pc = "desktop"
    /\ desktop.at[t] = "idle"
    /\ desktop.calls < MaxCalls
    /\ desktop' = IF desktop.ref_count + 1 = 1
                  THEN Begun(t, desktop.ref_count + 1, "start")
                  ELSE Returned(Begun(t, desktop.ref_count + 1, "idle"), t, "acquire", "Ok(false)")
    /\ UNCHANGED base_vars
    /\ UNCHANGED <<pc, keep_awake, oauth, fs, throttler, tracer, cache>>

\* spawn_keep_awake_process returns Ok: a child runs already, or one is spawned
SpawnKeepAwakeProcess(t) ==
    /\ pc = "desktop"
    /\ desktop.at[t] = "start"
    /\ desktop' = Returned([desktop EXCEPT !.process = TRUE], t, "acquire", "Ok(true)")
    /\ UNCHANGED base_vars
    /\ UNCHANGED <<pc, keep_awake, oauth, fs, throttler, tracer, cache>>

\* spawn_keep_awake_process returns Err: no child runs and spawn() fails
SpawnFails(t) ==
    /\ pc = "desktop"
    /\ desktop.at[t] = "start"
    /\ ~desktop.process
    /\ desktop' = [desktop EXCEPT !.at[t] = "restore"]
    /\ UNCHANGED base_vars
    /\ UNCHANGED <<pc, keep_awake, oauth, fs, throttler, tracer, cache>>

\* acquire, lines 84-88: the count is taken back and the error returned
RestoreCount(t) ==
    /\ pc = "desktop"
    /\ desktop.at[t] = "restore"
    /\ desktop' = Returned([desktop EXCEPT !.ref_count = IF @ > 0 THEN @ - 1 ELSE @],
                           t, "acquire", "Err")
    /\ UNCHANGED base_vars
    /\ UNCHANGED <<pc, keep_awake, oauth, fs, throttler, tracer, cache>>

\* release, lines 107-115 and 122-127
DesktopRelease(t) ==
    /\ pc = "desktop"
    /\ desktop.at[t] = "idle"
    /\ desktop.calls < MaxCalls
    /\ desktop' = IF desktop.ref_count = 0
                  THEN Returned(Begun(t, 0, "idle"), t, "release", "Ok(false)")
                  ELSE IF desktop.ref_count - 1 = 0
                  THEN Begun(t, 0, "stop")
                  ELSE Returned(Begun(t, desktop.ref_count - 1, "idle"), t, "release",
                                "Ok(false)")
    /\ UNCHANGED base_vars
    /\ UNCHANGED <<pc, keep_awake, oauth, fs, throttler, tracer, cache>>

\* stop_keep_awake_process: process_guard.take(), kill and wait
StopKeepAwakeProcess(t) ==
    /\ pc = "desktop"
    /\ desktop.at[t] = "stop"
    /\ desktop' = Returned([desktop EXCEPT !.process = FALSE], t, "release", "Ok(true)")
    /\ UNCHANGED base_vars
    /\ UNCHANGED <<pc, keep_awake, oauth, fs, throttler, tracer, cache>>

NextDesktop ==
    \E t \in Threads :
        \/ DesktopAcquire(t)
        \/ SpawnKeepAwakeProcess(t)
        \/ SpawnFails(t)
        \/ RestoreCount(t)
        \/ DesktopRelease(t)
        \/ StopKeepAwakeProcess(t)

DesktopSpec == InitDesktop /\ [][NextDesktop]_vars

\* C22 (as stated): whenever no call is in progress the keep-awake child
\* process runs iff ref_count > 0, under every interleaving of acquire and
\* release; an acquire of which the start fails returns an error and leaves
\* ref_count at its value before the call.
C22_ProcessIffHeld ==
    (pc = "desktop" /\ \A t \in Threads : desktop.at[t] = "idle") =>
        /\ desktop.process <=> desktop.ref_count > 0
        /\ \A i \in DOMAIN desktop.last :
              (desktop.last[i].returned = "Err" /\ desktop.last[i].alone) =>
                  desktop.last[i].after = desktop.last[i].before

---------------------------------------------------------------------------
(* The pending OAuth states of llm/auth/oauth.rs: a vector behind one      *)
(* mutex, held for the whole of store_oauth_state and validate_oauth_state.*)

\* Duration::from_secs(600)
OAUTH_STATE_TIMEOUT == 600

\* the last instant of the clock, in seconds
MaxClock == 1200

\* number of calls of store_oauth_state and validate_oauth_state
MaxOAuthCalls == 5

\* states.retain(|entry| now.duration_since(entry.created_at) < OAUTH_STATE_TIMEOUT)
retain(states, now) ==
    SelectSeq(states, LAMBDA entry : now - entry.created_at < OAUTH_STATE_TIMEOUT)

\* the vector after store_oauth_state(value) at the instant now; stored_by is
\* history: the number of the call that stored the entry
store_oauth_state(states, value, now, stored_by) ==
    Append(retain(states, now),
           [state |-> value, created_at |-> now, stored_by |-> stored_by])

\* faulty variant of validate_oauth_state: the matching entry is not removed
validate_oauth_state_kept(states, value, now) ==
    LET kept == retain(states, now)
        hits == {i \in DOMAIN kept : kept[i].state = value}
    IN  [states |-> kept, returned |-> hits # {},
         used |-> IF hits # {}
                  THEN <<kept[CHOOSE i \in hits : \A j \in hits : i <= j].stored_by>>
                  ELSE <<>>]

\* validate_oauth_state(value) at the instant now: the vector and the result;
\* used is history: the call that stored the entry that was removed
validate_oauth_state(states, value, now) ==
    LET kept == retain(states, now)
        hits == {i \in DOMAIN kept : kept[i].state = value}
        pos == CHOOSE i \in hits : \A j \in hits : i <= j
    IN  IF hits # {}
        THEN [states |-> SubSeq(kept, 1, pos - 1) \o SubSeq(kept, pos + 1, Len(kept)),
              returned |-> TRUE, used |-> <<kept[pos].stored_by>>]
        ELSE [states |-> kept, returned |-> FALSE, used |-> <<>>]

InitOAuth ==
    /\ pc = "oauth"
    /\ result = "pending"
    /\ rest = <<>>
    /\ received = <<>>
    /\ upstream = "live"
    /\ buffer = <<>>
    /\ state = DefaultState
    /\ events = <<>>
    /\ produced = <<>>
    /\ decoded = <<>>
    /\ frames = <<>>
    /\ http_requests = 0
    /\ empty_chunks = 0
    /\ request = <<>>
    /\ spans = <<>>
    /\ gateway = <<>>
    /\ callback = <<>>
    /\ settings = <<>>
    /\ resolution = <<>>
    /\ wire = <<>>
    /\ sse = <<>>
    /\ keep_awake = <<>>
    /\ desktop = <<>>
    /\ oauth = [states |-> <<>>, now |-> 0, calls |-> <<>>]
    /\ fs = <<>>
    /\ throttler = <<>>
    /\ tracer = <<>>
    /\ cache = <<>>

\* time passes: Instant::now() grows by five minutes
Tick ==
    /\ pc = "oauth"
    /\ oauth.now + 300 <= MaxClock
    /\ oauth' = [oauth EXCEPT !.now = @ + 300]
    /\ UNCHANGED base_vars
    /\ UNCHANGED <<pc, keep_awake, desktop, fs, throttler, tracer, cache>>

\* store_oauth_state(value); calls is history
StoreOAuthState ==
    /\ pc = "oauth"
    /\ Len(oauth.calls) < MaxOAuthCalls
    /\ \E value \in {"a", "b"} :
          oauth' = [oauth EXCEPT
                       !.states = store_oauth_state(@, value, oauth.now,
                                                    Len(oauth.calls) + 1),
                       !.calls = Append(@, [call |-> "store", state |-> value,
                                            at |-> oauth.now, returned |-> TRUE,
                                            used |-> <<>>])]
    /\ UNCHANGED base_vars
    /\ UNCHANGED <<pc, keep_awake, desktop, fs, throttler, tracer, cache>>

\* validate_oauth_state(value)
ValidateOAuthState ==
    /\ pc = "oauth"
    /\ Len(oauth.calls) < MaxOAuthCalls
    /\ \E value \in {"a", "b"} :
          \E v \in {validate_oauth_state(oauth.states, value, oauth.now)} :
              oauth' = [oauth EXCEPT
                           !.states = v.states,
                           !.calls = Append(@, [call |-> "validate", state |-> value,
                                                at |-> oauth.now, returned |-> v.returned,
                                                used |-> v.used])]
    /\ UNCHANGED base_vars
    /\ UNCHANGED <<pc, keep_awake, desktop, fs, throttler, tracer, cache>>

NextOAuth ==
    \/ Tick
    \/ StoreOAuthState
    \/ ValidateOAuthState

OAuthSpec == InitOAuth /\ [][NextOAuth]_vars

\* the validation k of the history is matched by the store i: an earlier
\* store of the same value, less than ten minutes before it
Matches(k, i) ==
    /\ i \in 1..(k - 1)
    /\ oauth.calls[i].call = "store"
    /\ oauth.calls[i].state = oauth.calls[k].state
    /\ oauth.calls[k].at - oauth.calls[i].at < 600

\* C23: validate_oauth_state returns true for a value only if a
\* store_oauth_state of it less than 10 minutes earlier has not been used by a
\* validation since; a validation that succeeds uses its store up, so no store
\* serves two validations; a value that is unknown, expired or used up does
\* not validate.
C23_SingleUseState ==
    pc = "oauth" =>
        \A k \in DOMAIN oauth.calls :
            oauth.calls[k].call = "validate" =>
                /\ oauth.calls[k].returned <=>
                      \E i \in 1..(k - 1) :
                          /\ Matches(k, i)
                          /\ \A j \in (i + 1)..(k - 1) : oauth.calls[j].used # <<i>>
                /\ oauth.calls[k].returned =>
                      /\ Len(oauth.calls[k].used) = 1
                      /\ Matches(k, oauth.calls[k].used[1])
                      /\ \A j \in 1..(k - 1) : oauth.calls[j].used # oauth.calls[k].used

\* a stored value validates once and not again; stored anew it is left to
\* expire and does not validate
C23_Witness ==
    /\ pc = "oauth"
    /\ [i \in DOMAIN oauth.calls |->
           <<oauth.calls[i].call, oauth.calls[i].state, oauth.calls[i].at,
             oauth.calls[i].returned>>]
          = <<<<"store", "a", 0, TRUE>>, <<"validate", "a", 300, TRUE>>,
              <<"validate", "a", 300, FALSE>>, <<"store", "a", 300, TRUE>>,
              <<"validate", "a", 900, FALSE>>>>

---------------------------------------------------------------------------
(* FileSystemPlatform of platform/fs.rs over a file system of directories   *)
(* and files without symbolic links. A path is the sequence of its          *)
(* components from the root directory <<>>; every path passed is absolute.  *)

\* ctx.workspace_root
workspace_root == <<"ws">>

\* the paths passed to the operations
FsPaths ==
    {<<"ws", "f">>, <<"ws", "d">>, <<"ws", "d", "f">>, <<"ws", "d", "..", "f">>,
     <<"etc", "f">>, <<"etc", "g">>, <<"ws", "..", "etc", "f">>,
     <<"ws", "d", "..", "..", "etc", "f">>}

\* Path::starts_with: the components of base are the first components of path
starts_with(path, base) ==
    Len(base) <= Len(path) /\ SubSeq(path, 1, Len(base)) = base

\* the path with its ".." components taken away together with the component
\* before each
RECURSIVE Normal(_)
Normal(path) ==
    IF path = <<>> THEN <<>>
    ELSE IF Last(path) = ".."
         THEN IF Normal(Front(path)) = <<>> THEN <<>> ELSE Front(Normal(Front(path)))
         ELSE Append(Normal(Front(path)), Last(path))

\* Path::canonicalize in the file system f: the path resolved component by
\* component, none where a component does not exist or a file is descended
RECURSIVE canonicalize(_, _)
canonicalize(f, path) ==
    IF path = <<>> THEN <<path>>
    ELSE LET parent == canonicalize(f, Front(path))
         IN  IF parent = <<>> \/ parent[1] \notin f.dirs THEN <<>>
             ELSE IF Last(path) = ".."
                  THEN <<IF parent[1] = <<>> THEN <<>> ELSE Front(parent[1])>>
                  ELSE IF Append(parent[1], Last(path)) \in f.dirs \union DOMAIN f.files
                       THEN <<Append(parent[1], Last(path))>>
                       ELSE <<>>

\* Path::exists
exists(f, path) == canonicalize(f, path) # <<>>

\* Path::is_dir
is_dir(f, path) == exists(f, path) /\ canonicalize(f, path)[1] \in f.dirs

\* the outcome of a step on the file system: the file system it leaves and,
\* where it failed, the kind of its error
Succeeded(f) == [ok |-> TRUE, fs |-> f]

Failed(f, kind) == [ok |-> FALSE, fs |-> f, err |-> kind]

\* validate_path: the canonical path, which has to exist, under the canonical
\* root
validate_path(f, path) ==
    LET canonical_path == canonicalize(f, path)
        canonical_root == canonicalize(f, workspace_root)
    IN  IF canonical_path = <<>> THEN Err("Invalid path")
        ELSE IF canonical_root = <<>> THEN Err("Invalid workspace root")
        ELSE IF ~starts_with(canonical_path[1], canonical_root[1])
             THEN Err("outside workspace root")
             ELSE Ok(canonical_path[1])

\* validate_write_path: the parent directory is compared with the canonical
\* root, canonical when it exists and as it is written when it does not
validate_write_path(f, path) ==
    LET absolute_path == path
        canonical_root == canonicalize(f, workspace_root)
        parent == Front(absolute_path)
    IN  IF canonical_root = <<>> THEN Err("Invalid workspace root")
        ELSE IF absolute_path = <<>> THEN Err("Invalid path: no parent directory")
        ELSE IF ~exists(f, parent)
             THEN IF ~starts_with(parent, canonical_root[1])
                  THEN Err("outside workspace root")
                  ELSE Ok(absolute_path)
             ELSE IF ~starts_with(canonicalize(f, parent)[1], canonical_root[1])
                  THEN Err("outside workspace root")
                  ELSE Ok(absolute_path)

\* mkdir of the operating system: the directory above is resolved, the last
\* component is made in it
mkdir(f, path) ==
    LET parent == canonicalize(f, Front(path))
    IN  IF path = <<>> THEN Failed(f, "AlreadyExists")
        ELSE IF parent = <<>> THEN Failed(f, "NotFound")
        ELSE IF parent[1] \notin f.dirs THEN Failed(f, "NotADirectory")
        ELSE IF Last(path) = ".." THEN Failed(f, "AlreadyExists")
        ELSE IF Append(parent[1], Last(path)) \in f.dirs \union DOMAIN f.files
             THEN Failed(f, "AlreadyExists")
             ELSE Succeeded([f EXCEPT !.dirs = @ \union {Append(parent[1], Last(path))}])

\* fs::create_dir_all: mkdir, after create_dir_all of the parent where mkdir
\* found no parent; a directory that is there already is no error
RECURSIVE create_dir_all(_, _)
create_dir_all(f, path) ==
    IF path = <<>> THEN Succeeded(f)
    ELSE LET first == mkdir(f, path)
         IN  IF first.ok THEN first
             ELSE IF first.err # "NotFound"
                  THEN IF is_dir(f, path) THEN Succeeded(f) ELSE first
                  ELSE LET above == create_dir_all(f, Front(path))
                           second == mkdir(above.fs, path)
                       IN  IF ~above.ok THEN above
                           ELSE IF second.ok THEN second
                           ELSE IF is_dir(above.fs, path) THEN Succeeded(above.fs)
                           ELSE second

\* fs::write: the file is created or replaced in the directory the path's
\* parent resolves to
write(f, path, content) ==
    LET parent == canonicalize(f, Front(path))
        target == Append(parent[1], Last(path))
    IN  IF path = <<>> \/ parent = <<>> THEN Failed(f, "NotFound")
        ELSE IF parent[1] \notin f.dirs THEN Failed(f, "NotADirectory")
        ELSE IF Last(path) = ".." \/ target \in f.dirs THEN Failed(f, "IsADirectory")
        ELSE Succeeded([f EXCEPT !.files = [p \in DOMAIN @ \union {target} |->
                                           IF p = target THEN content ELSE @[p]]])

\* fs::remove_file
remove_file(f, path) ==
    IF ~exists(f, path) THEN Failed(f, "NotFound")
    ELSE IF canonicalize(f, path)[1] \notin DOMAIN f.files THEN Failed(f, "IsADirectory")
    ELSE Succeeded([f EXCEPT !.files = [p \in DOMAIN @ \ {canonicalize(f, path)[1]} |-> @[p]]])

\* read_file: the file system and the result; every content is shorter than
\* ctx.max_file_size
read_file(f, path) ==
    LET validated == validate_path(f, path)
    IN  IF ~validated.ok THEN [fs |-> f, returned |-> validated.err]
        ELSE IF validated.value \notin DOMAIN f.files
             THEN [fs |-> f, returned |-> "Failed to read file"]
             ELSE [fs |-> f, returned |-> "Ok"]

\* write_file: the path is validated, the directories above it are made, the
\* content is written
write_file(f, path, content) ==
    LET validated == validate_write_path(f, path)
        made == create_dir_all(f, Front(validated.value))
        written == write(made.fs, validated.value, content)
    IN  IF ~validated.ok THEN [fs |-> f, returned |-> validated.err]
        ELSE IF ~made.ok THEN [fs |-> made.fs, returned |-> "Failed to create directory"]
        ELSE IF ~written.ok THEN [fs |-> written.fs, returned |-> "Failed to write file"]
        ELSE [fs |-> written.fs, returned |-> "Ok"]

\* delete_file
delete_file(f, path) ==
    LET validated == validate_path(f, path)
        removed == remove_file(f, validated.value)
    IN  IF ~validated.ok THEN [fs |-> f, returned |-> validated.err]
        ELSE IF ~removed.ok THEN [fs |-> removed.fs, returned |-> "Failed to delete file"]
        ELSE [fs |-> removed.fs, returned |-> "Ok"]

\* create_directory
create_directory(f, path) ==
    LET validated == validate_path(f, path)
        made == create_dir_all(f, validated.value)
    IN  IF ~validated.ok THEN [fs |-> f, returned |-> validated.err]
        ELSE IF ~made.ok THEN [fs |-> made.fs, returned |-> "Failed to create directory"]
        ELSE [fs |-> made.fs, returned |-> "Ok"]

\* the workspace /ws is empty; beside it the directory /etc holds the file f
FsTree == [dirs |-> {<<>>, <<"ws">>, <<"etc">>}, files |-> (<<"etc", "f">> :> "outside")]

InitFs ==
    /\ pc = "fs"
    /\ result = "pending"
    /\ rest = <<>>
    /\ received = <<>>
    /\ upstream = "live"
    /\ buffer = <<>>
    /\ state = DefaultState
    /\ events = <<>>
    /\ produced = <<>>
    /\ decoded = <<>>
    /\ frames = <<>>
    /\ http_requests = 0
    /\ empty_chunks = 0
    /\ request = <<>>
    /\ spans = <<>>
    /\ gateway = <<>>
    /\ callback = <<>>
    /\ settings = <<>>
    /\ resolution = <<>>
    /\ wire = <<>>
    /\ sse = <<>>
    /\ keep_awake = <<>>
    /\ desktop = <<>>
    /\ oauth = <<>>
    /\ fs = [tree |-> FsTree, last |-> <<>>]
    /\ throttler = <<>>
    /\ tracer = <<>>
    /\ cache = <<>>

\* a call of the platform on the tree: the tree it leaves; last is history,
\* the call with the tree it found and its result
FsCall(call, path, outcome) ==
    /\ pc = "fs"
    /\ fs' = [tree |-> outcome.fs,
              last |-> <<[call |-> call, path |-> path, before |-> fs.tree,
                          returned |-> outcome.returned]>>]
    /\ UNCHANGED base_vars
    /\ UNCHANGED <<pc, keep_awake, desktop, oauth, throttler, tracer, cache>>

ReadFile == \E path \in FsPaths : FsCall("read_file", path, read_file(fs.tree, path))

WriteFile ==
    \E path \in FsPaths, content \in {"a", "b"} :
        FsCall("write_file", path, write_file(fs.tree, path, content))

DeleteFile == \E path \in FsPaths : FsCall("delete_file", path, delete_file(fs.tree, path))

CreateDirectory ==
    \E path \in FsPaths : FsCall("create_directory", path, create_directory(fs.tree, path))

NextFs ==
    \/ ReadFile
    \/ WriteFile
    \/ DeleteFile
    \/ CreateDirectory

FsSpec == InitFs /\ [][NextFs]_vars

\* the part of a tree that is not under the workspace root
Outside(tree) ==
    [dirs |-> {p \in tree.dirs : ~starts_with(p, workspace_root)},
     files |-> [p \in {q \in DOMAIN tree.files : ~starts_with(q, workspace_root)} |->
                   tree.files[p]]]

\* C24: a call of read_file, write_file, delete_file or create_directory on a
\* path that leads outside the workspace root (a path to write, or one that
\* exists) returns the error 'outside workspace root' and leaves the file
\* system as it found it; whatever the calls, the files and directories
\* outside the root stay as they were at the start.
C24_ConfinedToRoot ==
    pc = "fs" =>
        /\ Outside(fs.tree) = Outside(FsTree)
        /\ \A i \in DOMAIN fs.last :
              (/\ ~starts_with(Normal(fs.last[i].path), workspace_root)
               /\ fs.last[i].call = "write_file" \/ exists(fs.last[i].before, fs.last[i].path))
                  => /\ fs.last[i].returned = "outside workspace root"
                     /\ fs.tree = fs.last[i].before

---------------------------------------------------------------------------
(* The token buffers of EventThrottler (streaming/throttle.rs): a map from  *)
(* session to string behind one RwLock, written under the write lock for    *)
(* the whole of each call. A string is the sequence of its bytes.           *)

\* number of calls on the throttler
MaxThrottlerCalls == 4

Sessions == {"sess-1", "sess-2"}

\* the tokens passed: none, "Hi ", "there", and one of eleven bytes
Tokens ==
    {<<>>, <<"H", "i", " ">>, <<"t", "h", "e", "r", "e">>,
     <<"a", "b", "c", "d", "e", "f", "g", "h", "i", "j", "k">>}

\* the buffer of a session, empty where the map has none
buffer_of(token_buffers, session_id) ==
    IF session_id \in DOMAIN token_buffers THEN token_buffers[session_id] ELSE <<>>

\* buffers.insert(session_id, value)
insert(token_buffers, session_id, value) ==
    [s \in DOMAIN token_buffers \union {session_id} |->
        IF s = session_id THEN value ELSE token_buffers[s]]

\* buffers.remove(session_id)
remove(token_buffers, session_id) ==
    [s \in DOMAIN token_buffers \ {session_id} |-> token_buffers[s]]

\* faulty variant of accumulate_token: the buffer returned is not cleared
accumulate_token_kept(config, token_buffers, session_id, token) ==
    LET pushed == buffer_of(token_buffers, session_id) \o token
    IN  [token_buffers |-> insert(token_buffers, session_id, pushed),
         returned |-> IF Len(pushed) >= 10 \/ config.debounce_duration = 0
                      THEN <<pushed>> ELSE <<>>]

\* accumulate_token: the token is pushed on the session's buffer; a buffer of
\* ten bytes or more, or any buffer when the debounce duration is zero, is
\* returned and cleared
accumulate_token(config, token_buffers, session_id, token) ==
    LET pushed == buffer_of(token_buffers, session_id) \o token
    IN  IF Len(pushed) >= 10 \/ config.debounce_duration = 0
        THEN [token_buffers |-> insert(token_buffers, session_id, <<>>),
              returned |-> <<pushed>>]
        ELSE [token_buffers |-> insert(token_buffers, session_id, pushed),
              returned |-> <<>>]

\* flush_tokens: the session's buffer is removed and returned unless empty
flush_tokens(token_buffers, session_id) ==
    [token_buffers |-> remove(token_buffers, session_id),
     returned |-> IF buffer_of(token_buffers, session_id) # <<>>
                  THEN <<token_buffers[session_id]>> ELSE <<>>]

\* EventThrottler::new(config): the default configuration debounces for 100
\* ms, a configuration may set the duration to zero
InitThrottler ==
    /\ pc = "throttler"
    /\ result = "pending"
    /\ rest = <<>>
    /\ received = <<>>
    /\ upstream = "live"
    /\ buffer = <<>>
    /\ state = DefaultState
    /\ events = <<>>
    /\ produced = <<>>
    /\ decoded = <<>>
    /\ frames = <<>>
    /\ http_requests = 0
    /\ empty_chunks = 0
    /\ request = <<>>
    /\ spans = <<>>
    /\ gateway = <<>>
    /\ callback = <<>>
    /\ settings = <<>>
    /\ resolution = <<>>
    /\ wire = <<>>
    /\ sse = <<>>
    /\ keep_awake = <<>>
    /\ desktop = <<>>
    /\ oauth = <<>>
    /\ fs = <<>>
    /\ \E debounce_duration \in {0, 100} :
          throttler = [config |-> [debounce_duration |-> debounce_duration],
                       token_buffers |-> <<>>,
                       passed |-> [s \in Sessions |-> <<>>],
                       returned |-> [s \in Sessions |-> <<>>],
                       cleared |-> {},
                       calls |-> 0,
                       last |-> <<>>]
    /\ tracer = <<>>
    /\ cache = <<>>

\* a call on the throttler; passed, returned, cleared, calls and last are
\* history: the tokens passed and the strings returned per session in call
\* order, the sessions cleared, and the last call with the buffers it found
ThrottlerCall(call, session_id, token, outcome) ==
    /\ pc = "throttler"
    /\ throttler.calls < MaxThrottlerCalls
    /\ throttler' =
          [throttler EXCEPT
              !.token_buffers = outcome.token_buffers,
              !.passed[session_id] = @ \o token,
              !.returned[session_id] =
                  IF outcome.returned = <<>> THEN @ ELSE @ \o outcome.returned[1],
              !.cleared = IF call = "clear_session" THEN @ \union {session_id} ELSE @,
              !.calls = @ + 1,
              !.last = <<[call |-> call, session_id |-> session_id, token |-> token,
                          before |-> throttler.token_buffers,
                          returned |-> outcome.returned]>>]
    /\ UNCHANGED base_vars
    /\ UNCHANGED <<pc, keep_awake, desktop, oauth, fs, tracer, cache>>

AccumulateToken ==
    \E session_id \in Sessions, token \in Tokens :
        ThrottlerCall("accumulate_token", session_id, token,
                      accumulate_token(throttler.config, throttler.token_buffers,
                                       session_id, token))

FlushTokens ==
    \E session_id \in Sessions :
        ThrottlerCall("flush_tokens", session_id, <<>>,
                      flush_tokens(throttler.token_buffers, session_id))

\* clear_session: the session's buffer is removed without being returned
ClearSession ==
    \E session_id \in Sessions :
        ThrottlerCall("clear_session", session_id, <<>>,
                      [token_buffers |-> remove(throttler.token_buffers, session_id),
                       returned |-> <<>>])

NextThrottler ==
    \/ AccumulateToken
    \/ FlushTokens
    \/ ClearSession

ThrottlerSpec == InitThrottler /\ [][NextThrottler]_vars

\* nothing is lost, repeated or reordered: for a session never cleared the
\* strings returned so far, followed by what its buffer holds, are the tokens
\* passed so far; a call leaves the buffers of the other sessions alone
Lossless ==
    /\ \A s \in Sessions \ throttler.cleared :
          throttler.returned[s] \o buffer_of(throttler.token_buffers, s)
              = throttler.passed[s]
    /\ \A i \in DOMAIN throttler.last :
          \A s \in Sessions \ {throttler.last[i].session_id} :
              /\ s \in DOMAIN throttler.token_buffers <=> s \in DOMAIN throttler.last[i].before
              /\ buffer_of(throttler.token_buffers, s) = buffer_of(throttler.last[i].before, s)

\* what the last call returned, given the test that makes accumulate_token
\* return: accumulate_token returns the whole buffer and leaves it empty when
\* the test holds of it and nothing otherwise; flush_tokens returns the buffer
\* unless it is empty and leaves none
ReturnsWhen(Due(_)) ==
    \A i \in DOMAIN throttler.last :
        LET c == throttler.last[i]
            held == buffer_of(c.before, c.session_id) \o c.token
            left == buffer_of(throttler.token_buffers, c.session_id)
        IN  CASE c.call = "accumulate_token" ->
                    IF Due(held) THEN c.returned = <<held>> /\ left = <<>>
                    ELSE c.returned = <<>> /\ left = held
              [] c.call = "flush_tokens" ->
                    /\ c.returned = IF held = <<>> THEN <<>> ELSE <<held>>
                    /\ left = <<>>
              [] OTHER -> TRUE

\* C25 as stated: nothing is lost or reordered, and accumulate_token returns
\* the buffer exactly when it holds at least 10 bytes.
C25_AsStated ==
    pc = "throttler" => Lossless /\ ReturnsWhen(LAMBDA held : Len(held) >= 10)

\* C25: nothing is lost or reordered; accumulate_token returns the buffer
\* exactly when it holds at least 10 bytes or the configured debounce duration
\* is zero, and nothing otherwise; flush_tokens returns the remaining
\* non-empty buffer and empties it; the buffers of different sessions never
\* mix.
C25_Debounce ==
    pc = "throttler" =>
        /\ Lossless
        /\ ReturnsWhen(LAMBDA held : Len(held) >= 10 \/ throttler.config.debounce_duration = 0)

\* under the default configuration "Hi " is held back for sess-1 and "there"
\* for sess-2, eleven bytes more make sess-1 return fourteen bytes, and the
\* flush of sess-2 returns "there"
C25_Witness ==
    /\ pc = "throttler"
    /\ throttler.config.debounce_duration = 100
    /\ throttler.passed["sess-1"]
          = <<"H", "i", " ", "a", "b", "c", "d", "e", "f", "g", "h", "i", "j", "k">>
    /\ throttler.returned["sess-1"] = throttler.passed["sess-1"]
    /\ throttler.returned["sess-2"] = <<"t", "h", "e", "r", "e">>
    /\ throttler.last[1].call = "flush_tokens"
    /\ throttler.cleared = {}

---------------------------------------------------------------------------
(* TraceWriter of llm/tracing/writer.rs: callers put commands on a bounded  *)
(* channel with try_send, one background task takes them off and writes     *)
(* them to the database in batches. The sizes are scaled down: the source   *)
(* has BATCH_SIZE 100 and CHANNEL_CAPACITY 10000.                           *)

\* the batch length at which run_writer flushes
BATCH_SIZE == 2

\* the capacity of the channel
CHANNEL_CAPACITY == 2

\* number of commands the callers send
MaxCommands == 3

\* number of calls of start()
MaxStarts == 2

\* sender.try_send(cmd): the channel, and whether the command was accepted
try_send(channel, closed, cmd) ==
    IF closed THEN [channel |-> channel, returned |-> "Closed"]
    ELSE IF Len(channel) >= CHANNEL_CAPACITY
         THEN [channel |-> channel, returned |-> "Full"]
         ELSE [channel |-> Append(channel, cmd), returned |-> "Ok"]

\* flush_batch: the batch is drained into one db.batch call, which writes
\* its statements in order or fails, in which case the error is logged and
\* the statements are gone; handed is history, the commands given to db.batch
flush_batch(t, db_ok) ==
    IF t.batch = <<>> THEN t
    ELSE [t EXCEPT !.batch = <<>>,
                   !.handed = @ \o t.batch,
                   !.database = IF db_ok THEN @ \o t.batch ELSE @,
                   !.failures = IF db_ok THEN @ ELSE @ + 1]

\* faulty variant of run_writer: Shutdown ends the task without a flush
run_writer_unflushed(t, cmd, db_ok) ==
    IF cmd.kind = "Shutdown"
    THEN [t EXCEPT !.writer = "exited", !.channel = <<>>]
    ELSE IF Len(t.batch) + 1 >= BATCH_SIZE
         THEN flush_batch([t EXCEPT !.batch = Append(@, cmd)], db_ok)
         ELSE [t EXCEPT !.batch = Append(@, cmd)]

\* run_writer on a command received: Shutdown flushes the batch and ends the
\* task, which drops the receiver with what the channel still holds; any
\* other command joins the batch, flushed when it reaches BATCH_SIZE
run_writer(t, cmd, db_ok) ==
    IF cmd.kind = "Shutdown"
    THEN [flush_batch(t, db_ok) EXCEPT !.writer = "exited", !.channel = <<>>]
    ELSE IF Len(t.batch) + 1 >= BATCH_SIZE
         THEN flush_batch([t EXCEPT !.batch = Append(@, cmd)], db_ok)
         ELSE [t EXCEPT !.batch = Append(@, cmd)]

\* TraceWriter::new: the receiver is kept in the writer until a task takes it
InitTracer ==
    /\ pc = "tracer"
    /\ result = "pending"
    /\ rest = <<>>
    /\ received = <<>>
    /\ upstream = "live"
    /\ buffer = <<>>
    /\ state = DefaultState
    /\ events = <<>>
    /\ produced = <<>>
    /\ decoded = <<>>
    /\ frames = <<>>
    /\ http_requests = 0
    /\ empty_chunks = 0
    /\ request = <<>>
    /\ spans = <<>>
    /\ gateway = <<>>
    /\ callback = <<>>
    /\ settings = <<>>
    /\ resolution = <<>>
    /\ wire = <<>>
    /\ sse = <<>>
    /\ keep_awake = <<>>
    /\ desktop = <<>>
    /\ oauth = <<>>
    /\ fs = <<>>
    /\ throttler = <<>>
    /\ tracer = [channel |-> <<>>, receiver |-> TRUE, writer |-> "none", tasks |-> 0,
                 starts |-> 0, batch |-> <<>>, database |-> <<>>, handed |-> <<>>,
                 failures |-> 0, accepted |-> <<>>, sent |-> 0, before |-> <<>>,
                 last |-> <<>>]
    /\ cache = <<>>

\* start(): the spawned task takes the receiver if it is still there and runs
\* run_writer; tasks is history, the number of tasks that ran run_writer
Start ==
    /\ pc = "tracer"
    /\ tracer.starts < MaxStarts
    /\ tracer' = IF tracer.receiver
                 THEN [tracer EXCEPT !.starts = @ + 1, !.receiver = FALSE,
                                     !.writer = "running", !.tasks = @ + 1]
                 ELSE [tracer EXCEPT !.starts = @ + 1]
    /\ UNCHANGED base_vars
    /\ UNCHANGED <<pc, keep_awake, desktop, oauth, fs, throttler, cache>>

\* a caller sends a command with try_send and returns; accepted, sent and last
\* are history: the commands accepted in order, the number of calls, and the
\* last call with the channel length it found
Send(kind) ==
    /\ pc = "tracer"
    /\ tracer.sent < MaxCommands
    /\ \E s \in {try_send(tracer.channel, tracer.writer = "exited",
                          [kind |-> kind, id |-> tracer.sent + 1])} :
          tracer' = [tracer EXCEPT
                        !.channel = s.channel,
                        !.sent = @ + 1,
                        !.accepted = IF s.returned = "Ok"
                                     THEN Append(@, [kind |-> kind, id |-> tracer.sent + 1])
                                     ELSE @,
                        !.last = <<[kind |-> kind, found |-> Len(tracer.channel),
                                    closed |-> tracer.writer = "exited",
                                    returned |-> s.returned]>>]
    /\ UNCHANGED base_vars
    /\ UNCHANGED <<pc, keep_awake, desktop, oauth, fs, throttler, cache>>

StartTrace == Send("CreateTrace")

StartSpan == Send("CreateSpan")

AddEvent == Send("AddEvent")

EndSpan == Send("CloseSpan")

\* shutdown_blocking: sender.send(Shutdown).await waits for room in the
\* channel; before is history, the commands accepted until then
ShutdownBlocking ==
    /\ pc = "tracer"
    /\ tracer.before = <<>>
    /\ tracer.writer # "exited"
    /\ Len(tracer.channel) < CHANNEL_CAPACITY
    /\ tracer' = [tracer EXCEPT !.channel = Append(@, [kind |-> "Shutdown", id |-> 0]),
                                !.before = <<tracer.accepted>>]
    /\ UNCHANGED base_vars
    /\ UNCHANGED <<pc, keep_awake, desktop, oauth, fs, throttler, cache>>

\* the select! branch receiver.recv()
Recv ==
    /\ pc = "tracer"
    /\ tracer.writer = "running"
    /\ tracer.channel # <<>>
    /\ \E db_ok \in BOOLEAN :
          tracer' = run_writer([tracer EXCEPT !.channel = Tail(@)],
                               tracer.channel[1], db_ok)
    /\ UNCHANGED base_vars
    /\ UNCHANGED <<pc, keep_awake, desktop, oauth, fs, throttler, cache>>

\* the select! branch flush_interval.tick() with a batch to flush
FlushTick ==
    /\ pc = "tracer"
    /\ tracer.writer = "running"
    /\ tracer.batch # <<>>
    /\ \E db_ok \in BOOLEAN : tracer' = flush_batch(tracer, db_ok)
    /\ UNCHANGED base_vars
    /\ UNCHANGED <<pc, keep_awake, desktop, oauth, fs, throttler, cache>>

NextTracer ==
    \/ Start
    \/ StartTrace
    \/ StartSpan
    \/ AddEvent
    \/ EndSpan
    \/ ShutdownBlocking
    \/ Recv
    \/ FlushTick

TracerSpec == InitTracer /\ [][NextTracer]_vars

\* the commands of the channel that are not Shutdown
Commands(channel) == SelectSeq(channel, LAMBDA cmd : cmd.kind # "Shutdown")

\* callers never wait and the order is kept: a call is accepted exactly when
\* the channel it found had room and was open, else its command is dropped; at
\* most one task ever runs run_writer; until the writer exits the commands
\* accepted are, in order, those handed to the database, those of the batch
\* and those of the channel; and what a given test says of the writer after
\* its exit
Ordered(AtExit(_)) ==
    /\ \A i \in DOMAIN tracer.last :
          /\ tracer.last[i].returned = "Ok"
                <=> (tracer.last[i].found < CHANNEL_CAPACITY /\ ~tracer.last[i].closed)
          /\ tracer.last[i].returned = "Full"
                <=> (tracer.last[i].found >= CHANNEL_CAPACITY /\ ~tracer.last[i].closed)
    /\ tracer.tasks <= 1
    /\ tracer.writer # "exited" =>
          tracer.accepted = tracer.handed \o tracer.batch \o Commands(tracer.channel)
    /\ tracer.writer = "exited" =>
          /\ Len(tracer.before) = 1
          /\ AtExit(tracer.before[1])

\* C26 as stated: callers never wait and the order is kept, and when the
\* writer has exited the database holds, in order, every command accepted
\* before Shutdown.
C26_AsStated ==
    pc = "tracer" => Ordered(LAMBDA before : tracer.database = before)

\* C26: callers never wait and the order is kept; when the writer has exited
\* every command accepted before Shutdown has been handed to the database in
\* the order sent and none is left in the batch, and the database holds them
\* all, in that order, if no batch write failed.
C26_HandedInOrder ==
    pc = "tracer" =>
        Ordered(LAMBDA before :
                    /\ tracer.handed = before
                    /\ tracer.batch = <<>>
                    /\ tracer.failures = 0 => tracer.database = before)

\* two starts gave one task; three commands were accepted and written in
\* order, two when the batch was full and the third by the flush on Shutdown
C26_Witness ==
    /\ pc = "tracer"
    /\ tracer.starts = 2
    /\ tracer.tasks = 1
    /\ tracer.writer = "exited"
    /\ tracer.failures = 0
    /\ Len(tracer.database) = 3
    /\ tracer.database = tracer.before[1]
    /\ tracer.sent = 3

---------------------------------------------------------------------------
(* The models cache of ApiKeyManager (llm/auth/api_key_manager.rs): an      *)
(* Option<(ModelsConfiguration, Instant)> behind a RwLock that               *)
(* load_models_config takes twice, to read the cache and to update it, with *)
(* the read of the source between the two.                                  *)

\* Duration::from_secs(300)
MODELS_CACHE_TTL == 300

\* the entry of the cache, if it is younger than the TTL at the instant now
fresh(models_cache, now) ==
    SelectSeq(models_cache, LAMBDA entry : now - entry.timestamp < MODELS_CACHE_TTL)

\* clear_models_cache on the cache record: the cache is emptied; history: the
\* configurations that loads in flight have read are from before this clear,
\* and the loads in flight have overlapped it
clear_models_cache(c) ==
    [c EXCEPT !.models_cache = <<>>,
              !.held = [t \in Threads |-> [before_clear |-> TRUE]],
              !.overlapped = [t \in Threads |-> c.at[t] # "idle"]]

\* ApiKeyManager::new: the cache is None
InitCache ==
    /\ pc = "cache"
    /\ result = "pending"
    /\ rest = <<>>
    /\ received = <<>>
    /\ upstream = "live"
    /\ buffer = <<>>
    /\ state = DefaultState
    /\ events = <<>>
    /\ produced = <<>>
    /\ decoded = <<>>
    /\ frames = <<>>
    /\ http_requests = 0
    /\ empty_chunks = 0
    /\ request = <<>>
    /\ spans = <<>>
    /\ gateway = <<>>
    /\ callback = <<>>
    /\ settings = <<>>
    /\ resolution = <<>>
    /\ wire = <<>>
    /\ sse = <<>>
    /\ keep_awake = <<>>
    /\ desktop = <<>>
    /\ oauth = <<>>
    /\ fs = <<>>
    /\ throttler = <<>>
    /\ tracer = <<>>
    /\ cache = [models_cache |-> <<>>, now |-> 0,
                at |-> [t \in Threads |-> "idle"],
                held |-> [t \in Threads |-> [before_clear |-> FALSE]],
                overlapped |-> [t \in Threads |-> FALSE],
                last |-> <<>>]

\* time passes: Instant::now() grows by two and a half minutes
CacheTick ==
    /\ pc = "cache"
    /\ cache.now + 150 <= MaxClock
    /\ cache' = [cache EXCEPT !.now = @ + 150]
    /\ UNCHANGED base_vars
    /\ UNCHANGED <<pc, keep_awake, desktop, oauth, fs, throttler, tracer>>

\* load_models_config, the cache check under the read lock: a fresh entry is
\* returned, otherwise the call goes on to the source; last is history, the
\* call that returned last with the age of the entry its check found
CheckCache(t) ==
    /\ pc = "cache"
    /\ cache.at[t] = "idle"
    /\ cache' =
          IF fresh(cache.models_cache, cache.now) # <<>>
          THEN [cache EXCEPT
                   !.last = <<[call |-> "load_models_config", returned |-> "Ok",
                               config |-> cache.models_cache[1].config,
                               read_source |-> FALSE,
                               found |-> <<cache.now - cache.models_cache[1].timestamp>>,
                               overlapped |-> FALSE]>>]
          ELSE [cache EXCEPT
                   !.at[t] = "miss",
                   !.overlapped[t] = FALSE,
                   !.held[t] = [before_clear |-> FALSE],
                   !.last = <<>>]
    /\ UNCHANGED base_vars
    /\ UNCHANGED <<pc, keep_awake, desktop, oauth, fs, throttler, tracer>>

\* load_models_config_from_source: the configuration is read, or the call
\* returns the error of the read
LoadFromSource(t) ==
    /\ pc = "cache"
    /\ cache.at[t] = "miss"
    /\ \E ok \in BOOLEAN :
          cache' =
             IF ok
             THEN [cache EXCEPT !.at[t] = "read", !.held[t] = [before_clear |-> FALSE]]
             ELSE [cache EXCEPT
                      !.at[t] = "idle",
                      !.last = <<[call |-> "load_models_config", returned |-> "Err",
                                  config |-> cache.held[t], read_source |-> TRUE,
                                  found |-> <<>>, overlapped |-> cache.overlapped[t]]>>]
    /\ UNCHANGED base_vars
    /\ UNCHANGED <<pc, keep_awake, desktop, oauth, fs, throttler, tracer>>

\* load_models_config, the update under the write lock: the configuration
\* read is stored with the instant of the store and returned
UpdateCache(t) ==
    /\ pc = "cache"
    /\ cache.at[t] = "read"
    /\ cache' = [cache EXCEPT
                    !.models_cache = <<[config |-> cache.held[t], timestamp |-> cache.now]>>,
                    !.at[t] = "idle",
                    !.last = <<[call |-> "load_models_config", returned |-> "Ok",
                                config |-> cache.held[t], read_source |-> TRUE,
                                found |-> <<>>, overlapped |-> cache.overlapped[t]]>>]
    /\ UNCHANGED base_vars
    /\ UNCHANGED <<pc, keep_awake, desktop, oauth, fs, throttler, tracer>>

\* clear_models_cache
ClearModelsCache ==
    /\ pc = "cache"
    /\ cache' = [clear_models_cache(cache) EXCEPT !.last = <<>>]
    /\ UNCHANGED base_vars
    /\ UNCHANGED <<pc, keep_awake, desktop, oauth, fs, throttler, tracer>>

\* save_custom_providers: the file is written and the cache cleared, or the
\* write fails and the call returns its error
SaveCustomProviders ==
    /\ pc = "cache"
    /\ \E ok \in BOOLEAN :
          cache' = [(IF ok THEN clear_models_cache(cache) ELSE cache) EXCEPT
                       !.last = <<[call |-> "save_custom_providers",
                                   returned |-> IF ok THEN "Ok" ELSE "Err",
                                   config |-> [before_clear |-> FALSE],
                                   read_source |-> FALSE, found |-> <<>>,
                                   overlapped |-> FALSE]>>]
    /\ UNCHANGED base_vars
    /\ UNCHANGED <<pc, keep_awake, desktop, oauth, fs, throttler, tracer>>

NextCache ==
    \/ CacheTick
    \/ ClearModelsCache
    \/ SaveCustomProviders
    \/ \E t \in Threads :
          \/ CheckCache(t)
          \/ LoadFromSource(t)
          \/ UpdateCache(t)

CacheSpec == InitCache /\ [][NextCache]_vars

\* C27: load_models_config returns the cached configuration without reading
\* the source exactly when its check finds an entry younger than 5 minutes,
\* and reads the source otherwise; a load that starts after a clear has
\* returned never returns a configuration read from the source before that
\* clear, also when another load was in flight during the clear.
C27_NoStaleAfterClear ==
    pc = "cache" =>
        \A i \in DOMAIN cache.last :
            cache.last[i].call = "load_models_config" =>
                /\ ~cache.last[i].read_source =>
                      /\ Len(cache.last[i].found) = 1
                      /\ cache.last[i].found[1] < 300
                /\ (cache.last[i].returned = "Ok" /\ ~cache.last[i].overlapped) =>
                      ~cache.last[i].config.before_clear

---------------------------------------------------------------------------
(* Properties of the forced sweep, of text and of reasoning in the          *)
(* OAuth/Codex decoder.                                                     *)

\* the last frame decoded is a done frame, for an item other than id
IsDoneForOther(f, id) ==
    /\ Str(f.data, "type") = "response.function_call_arguments.done"
    /\ Str(f.data, "item_id") \notin {"", id}

\* id is registered in the order and named, and was not emitted
Sweepable(st, id) ==
    /\ \E i \in DOMAIN st.tool_call_order : st.tool_call_order[i] = id
    /\ id \in DOMAIN st.tool_calls
    /\ st.tool_calls[id].tool_name # ""
    /\ id \notin st.emitted_tool_calls

EarlySweep ==
    <<AddedFrame("b", 1), AddedFrame("a", 0), DoneFrame("b", "f", <<>>),
      DoneFrame("a", "", <<"{">>)>>

---------------------------------------------------------------------------
(* The decoder driven with the frames that carry text and reasoning.        *)

OutputTextDelta(delta) == [type |-> "response.output_text.delta", delta |-> delta]

ContentPartAdded(text) == [type |-> "response.content_part.added", part |-> [text |-> text]]

CompletedWith(text) ==
    [type |-> "response.completed",
     response |-> [output |-> <<[content |-> <<[text |-> text]>>]>>]]

\* a chat.completion.chunk whose first choice has the given delta object
Chunk(delta) == [object |-> "chat.completion.chunk", choices |-> <<[delta |-> delta]>>]

ReasoningTextDelta(id, delta) ==
    [type |-> "response.reasoning_text.delta", item_id |-> id, delta |-> delta]

ReasoningTextDone(id) == [type |-> "response.reasoning_text.done", item_id |-> id]

\* a response.completed with usage and with text in its output
CompletedUsageWith(text) ==
    [type |-> "response.completed",
     response |-> [usage |-> [input_tokens |-> 10, output_tokens |-> 5, total_tokens |-> 15],
                   output |-> <<[content |-> <<[text |-> text]>>]>>]]

ContentFrames ==
    {OutputTextDelta("x"), OutputTextDelta(""), ContentPartAdded("y"), CompletedWith("x"),
     CompletedUsageWith("z"), CompletedPayload,
     Chunk([content |-> "c"]), Chunk([role |-> "assistant"]),
     ReasoningTextDelta("r1", "t"), ReasoningTextDelta("r2", "t"),
     ReasoningTextDelta("r1", ""), ReasoningTextDone("r1")}

InitContent ==
    /\ pc = "content"
    /\ result = "pending"
    /\ rest = <<>>
    /\ received = <<>>
    /\ upstream = "live"
    /\ buffer = <<>>
    /\ state = DefaultState
    /\ events = <<>>
    /\ produced = <<>>
    /\ decoded = <<>>
    /\ frames = <<>>
    /\ http_requests = 0
    /\ empty_chunks = 0
    /\ request = <<>>
    /\ spans = <<>>
    /\ gateway = <<>>
    /\ callback = <<>>
    /\ settings = <<>>
    /\ resolution = <<>>
    /\ wire = <<>>
    /\ sse = <<>>
    /\ keep_awake = <<>>
    /\ desktop = <<>>
    /\ oauth = <<>>
    /\ fs = <<>>
    /\ throttler = <<>>
    /\ tracer = <<>>
    /\ cache = <<>>

\* parse_openai_oauth_event(None, data, &mut state) on a content frame
FeedContent ==
    /\ pc = "content"
    /\ Len(decoded) < MaxDecoded
    /\ \E data \in ContentFrames :
        \E r \in {parse_openai_oauth_event(<<>>, data, state)} :
            /\ state' = r.state
            /\ events' = events \o r.event
            /\ produced' = produced \o r.pushed
            /\ decoded' = Append(decoded, [event |-> <<>>, data |-> data])
    /\ UNCHANGED <<pc, result, rest, received, upstream, buffer, frames,
                   http_requests, empty_chunks>>
    /\ UNCHANGED resolver_vars

\* the caller drains state.pending_events
TakeContent ==
    /\ pc = "content"
    /\ state.pending_events # <<>>
    /\ events' = events \o state.pending_events
    /\ state' = [state EXCEPT !.pending_events = <<>>]
    /\ UNCHANGED <<pc, result, rest, received, upstream, buffer, produced, decoded,
                   frames, http_requests, empty_chunks>>
    /\ UNCHANGED resolver_vars

NextContent ==
    \/ FeedContent
    \/ TakeContent

ContentSpec == InitContent /\ [][NextContent]_vars

\* the positions of a sequence of events that hold an event of the type
Of(seq, type) == {i \in DOMAIN seq : seq[i].type = type}

\* TextStart is pushed at most once in the request, and every TextDelta has
\* the TextStart before it
StartsText(seq) ==
    /\ Cardinality(Of(seq, "TextStart")) <= 1
    /\ \A i \in Of(seq, "TextDelta") : \E j \in Of(seq, "TextStart") : j < i

OpensText(data) ==
    \/ Str(data, "type") = "response.output_text.delta"
    \/ Str(data, "type") = "response.content_part.added"
    \/ /\ Str(data, "type") = "response.completed"
       /\ Has(data, "response") /\ Has(data.response, "output")
       /\ \E i \in DOMAIN output_parts(data.response.output) :
             Has(output_parts(data.response.output)[i], "text")
    \/ Str(data, "object") = "chat.completion.chunk"

OfId(seq, type, id) == {i \in Of(seq, type) : seq[i].id = id}

\* C30: a reasoning delta whose id is not the cursor pushes ReasoningStart for
\* the id before its ReasoningDelta, one whose id is the cursor pushes
\* ReasoningDelta only, and a reasoning done pushes ReasoningEnd for its id;
\* so every ReasoningDelta of an id has a ReasoningStart of the id before it
\* with no ReasoningEnd of the id between the two, also when the id delivers
\* deltas again after its done.
C30_WellBracketed ==
    [][pc = "content" =>
          /\ \A id \in {"r1", "r2"} :
                \A i \in OfId(produced', "ReasoningDelta", id) :
                    \E j \in OfId(produced', "ReasoningStart", id) :
                        /\ j < i
                        /\ \A k \in OfId(produced', "ReasoningEnd", id) : k < j \/ i < k
          /\ \A id \in {"r1", "r2"} :
                (Fed /\ Str(Last(decoded').data, "type") = "response.reasoning_text.delta"
                     /\ Str(Last(decoded').data, "item_id") = id) =>
                    /\ OfId(Pushed, "ReasoningStart", id) # {}
                          <=> state.current_thinking_id # <<id>>
                    /\ \A j \in OfId(Pushed, "ReasoningStart", id) :
                          \A i \in OfId(Pushed, "ReasoningDelta", id) : j < i
          /\ (Fed /\ Str(Last(decoded').data, "type") = "response.reasoning_text.done") =>
                Pushed = <<ReasoningEnd(Last(decoded').data.item_id)>>]_vars

---------------------------------------------------------------------------
(* Properties of the response.completed arm.                                *)

\* the step decodes a response.completed frame
FedCompleted == Fed /\ Str(Last(decoded').data, "type") = "response.completed"

\* C31: a response.completed frame pushes as TextDelta only text that no
\* earlier TextDelta of the request carried: text of response.output[] that
\* the output_text.delta frames delivered is not pushed a second time.
C31_CompletedTextOnce ==
    [][(pc = "content" /\ FedCompleted) =>
          \A i \in Of(Pushed, "TextDelta") :
              \A j \in Of(produced, "TextDelta") : produced[j].text # Pushed[i].text]_vars

\* C32: a response.completed frame pushes Done with no finish reason as its
\* last and only Done; when the payload has response.usage it pushes first one
\* Usage with the input, output and total token counts of the payload, and no
\* Usage otherwise; what lies between the two is text events; a frame without
\* usage and output pushes Done alone.
C32_CompletedEndsWithDone ==
    [][(pc = "content" /\ FedCompleted) =>
          LET data == Last(decoded').data
              usage == Has(data, "response") /\ Has(data.response, "usage")
          IN  /\ Of(Pushed, "Done") = {Len(Pushed)}
              /\ Last(Pushed) = Done(<<>>)
              /\ Of(Pushed, "Usage") = IF usage THEN {1} ELSE {}
              /\ usage => Pushed[1] = Usage(data.response.usage.input_tokens,
                                            data.response.usage.output_tokens,
                                            <<data.response.usage.total_tokens>>)
              /\ \A i \in 1..(Len(Pushed) - 1) :
                    Pushed[i].type \in {"Usage", "TextStart", "TextDelta"}
              /\ (~Has(data, "response")) => Pushed = <<Done(<<>>)>>]_vars

\* a delta was streamed, the completed response with usage and text pushed
\* Usage, its text and Done, and a bare completed response pushed Done alone
C32_Witness ==
    /\ pc = "content"
    /\ [i \in DOMAIN decoded |-> decoded[i].data]
          = <<OutputTextDelta("x"), CompletedUsageWith("z"), CompletedPayload>>
    /\ produced = <<TextStart, TextDelta("x"), Usage(10, 5, <<15>>), TextDelta("z"),
                    Done(<<>>), Done(<<>>)>>

---------------------------------------------------------------------------
(* Properties of tool_call_order.                                           *)

\* the ids that occur in the order
InOrder(order) == {order[i] : i \in DOMAIN order}

\* C33: after a response.output_item.added frame of a function call X with
\* index i, tool_call_order has at least i + 1 slots and slot i holds X; without
\* an index X is appended unless it is present; after every frame each id
\* registered in tool_calls occurs in tool_call_order and no id other than the
\* empty placeholder occurs in it twice.
C33_OrderHoldsEveryItem ==
    [][(pc = "decoder" /\ Fed) =>
          LET data == Last(decoded').data
              order == state'.tool_call_order
          IN  /\ Str(data, "type") = "response.output_item.added" =>
                    IF Has(data.item, "index")
                    THEN /\ Len(order) >= data.item.index + 1
                         /\ order[data.item.index + 1] = data.item.id
                    ELSE order = IF data.item.id \in InOrder(state.tool_call_order)
                                 THEN state.tool_call_order
                                 ELSE Append(state.tool_call_order, data.item.id)
              /\ DOMAIN state'.tool_calls \subseteq InOrder(order)
              /\ \A i, j \in DOMAIN order : (order[i] = order[j] /\ order[i] # "") => i = j]_vars

---------------------------------------------------------------------------
(* The pending-event queue in the orchestrator.                             *)

\* C36: the pending-event queue is empty before and after every turn of the
\* read loop, so a frame is handed to the decoder with an empty queue; every
\* event the frames of a turn queued is on the channel when the turn ends, in
\* the order it was queued; when the request ends normally the queue is empty
\* and every event the decoder queued was delivered.
C36_QueueDrainedPerFrame ==
    [][pc = "stream" =>
          /\ state.pending_events = <<>>
          /\ state'.pending_events = <<>>
          /\ \E n \in 0..Len(events') :
                /\ n >= Len(events)
                /\ SubSeq(events', Len(events) + 1, n) = Pushed
          /\ result' = "ok" => Front(events') = produced /\ Pushed = <<>>]_vars

\* a frame queued Usage and Done, both were delivered, the next frame was
\* decoded, and the request ended normally
C36_Witness ==
    /\ result = "ok"
    /\ [i \in DOMAIN decoded |-> decoded[i].data] = <<CompletedUsagePayload, TextPayload>>
    /\ events = <<Usage(1, 1, <<2>>), Done(<<>>), TextStart, TextDelta("hi"), Done(<<>>)>>

---------------------------------------------------------------------------
(* stream_completion on an upstream of frames that carry nothing fatal:    *)
(* unknown event types, frames without a dispatch key, frames without a    *)
(* data line, and tool-call argument text that is no JSON document.        *)

\* frames in one such upstream byte stream
MaxQuietFrames == 3

\* a type no arm of the decoder matches
UnknownPayload == [type |-> "response.queued"]

\* a JSON object without type, event and kind
KeylessPayload == [note |-> "n"]

QuietBodies ==
    {<<DataOpen(p), DataClose>> :
        p \in {UnknownPayload, KeylessPayload, DeltaFrame("a", <<"{">>, -1),
               DoneFrame("a", "f", <<"{">>)}}
        \cup {<<EventLine("ping"), LF, DataOpen(KeylessPayload), DataClose>>,
              <<CommentLine>>}

QuietFrames == {b \o <<LF, LF>> : b \in QuietBodies}

RECURSIVE QuietStreamsOf(_)
QuietStreamsOf(n) ==
    IF n = 0 THEN {<<>>}
    ELSE QuietStreamsOf(n - 1) \cup {s \o w : s \in QuietStreamsOf(n - 1), w \in QuietFrames}

\* the response has status < 400; its body is one of the quiet streams
ResponseOkQuiet ==
    /\ pc = "send"
    /\ http_requests' = http_requests + 1
    /\ rest' \in QuietStreamsOf(MaxQuietFrames)
    /\ pc' = "stream"
    /\ UNCHANGED <<result, received, upstream, buffer, state, events, produced,
                   decoded, frames, empty_chunks>>
    /\ UNCHANGED resolver_vars

NextQuiet ==
    \/ Resolved
    \/ ResponseOkQuiet
    \/ RecvChunk
    \/ RecvEmptyChunk
    \/ RecvEnd

QuietSpec == Init /\ [][NextQuiet]_vars

\* the frame has an unknown event type or resolves to no dispatch key
Silent(frame) ==
    LET resolved == resolved_event(frame.event, frame.data)
    IN  resolved = <<>> \/ resolved[1] \in {"ping", "response.queued"}

\* the state and the channel after the frames of seq, decoded one by one
RECURSIVE Replayed(_, _)
Replayed(seq, acc) ==
    IF seq = <<>> THEN acc
    ELSE LET r == parse_openai_oauth_event(Head(seq).event, Head(seq).data, acc.state)
         IN  Replayed(Tail(seq), [state |-> [r.state EXCEPT !.pending_events = <<>>],
                                  events |-> acc.events \o emitted_by(r)])

\* C34: on such an upstream no Error event is emitted and the request ends
\* only when the upstream has ended, with Ok; an empty chunk and a frame
\* without a data line change nothing; a frame with an unknown event type or
\* without a dispatch key leaves ProtocolStreamState as it was and produces no
\* event: state and channel are what the other frames alone would have made.
C34_NonFatalIgnored ==
    [][/\ Of(events', "Error") = {}
       /\ result' # result => rest = <<>> /\ result' = "ok"
       /\ (pc = "stream" /\ Len(decoded') = Len(decoded)) =>
             state' = state /\ (events' = events \/ result' = "ok")
       /\ pc' = "stream" =>
             Replayed(SelectSeq(decoded', LAMBDA f : ~Silent(f)),
                      [state |-> DefaultState, events |-> <<>>])
                = [state |-> state', events |-> events']]_vars

\* a delta with partial arguments and then a frame with an unknown event name
\* were decoded, an empty chunk and a frame without a data line came in, and
\* the request goes on with the arguments kept
C34_Witness ==
    /\ pc = "stream"
    /\ empty_chunks = 1
    /\ Len(frames) = 3
    /\ [i \in DOMAIN decoded |-> decoded[i].data]
          = <<DeltaFrame("a", <<"{">>, -1), KeylessPayload>>
    /\ decoded[2].event = <<"ping">>
    /\ state.tool_calls["a"].arguments = <<"{">>
    /\ events = <<>>

---------------------------------------------------------------------------
(* StreamHandler::build_openai_oauth_request: the canonical messages of a  *)
(* request translated into the item list of the OAuth/Codex upstream.  A   *)
(* MessageContent is [kind |-> "Text", text |-> t] or [kind |-> "Parts",   *)
(* parts |-> seq]; the String of a system message is [kind |-> "String",   *)
(* text |-> t] and the Vec<ContentPart> of a tool message has the kind     *)
(* "Parts"; a text is "", " " or a word; `instructions` is the sequence of *)
(* the texts it is made of.                                                *)

\* the variables of the other components of this module
other_vars ==
    <<result, rest, received, upstream, buffer, state, events, produced, decoded, frames,
      http_requests, empty_chunks, settings, resolution, wire, sse, keep_awake, desktop,
      oauth, fs, throttler, tracer, cache>>

\* messages in one request
MaxMessages == 3

\* include_str!("../../../../src/services/codex-instructions.md")
CodexInstructions == "codex-instructions.md"

\* text.trim().is_empty()
TextBlank(text) == text \in {"", " "}

\* serde_json::Value::to_string
to_string(value) == [json_text_of |-> value]

tool_output_to_string(output) ==
    IF Has(output, "value") THEN output.value ELSE to_string(output)

InputText(text) == [type |-> "input_text", text |-> text]

InputImage(image) ==
    [type |-> "input_image", image_url |-> <<"data:image/png;base64,", image>>]

MessageItem(role, content) == [type |-> "message", role |-> role, content |-> content]

push_message_item(role, parts, input_items) ==
    IF parts = <<>> THEN input_items ELSE Append(input_items, MessageItem(role, parts))

RECURSIVE map_parts(_)
map_parts(parts) ==
    IF parts = <<>> THEN <<>>
    ELSE LET part == Head(parts)
         IN  (CASE part.part \in {"Text", "Reasoning"} ->
                      IF TextBlank(part.text) THEN <<>> ELSE <<InputText(part.text)>>
                [] part.part = "Image" -> <<InputImage(part.image)>>
                [] OTHER -> <<>>)
             \o map_parts(Tail(parts))

to_input_content(content) ==
    IF content.kind = "Text"
    THEN (IF TextBlank(content.text) THEN <<>> ELSE <<InputText(content.text)>>)
    ELSE map_parts(content.parts)

FunctionCall(part) ==
    [type |-> "function_call", call_id |-> part.tool_call_id, name |-> part.tool_name,
     arguments |-> to_string(part.input)]

\* the loop over the parts of an assistant message
RECURSIVE assistant_parts(_, _, _)
assistant_parts(parts, pending_parts, input_items) ==
    IF parts = <<>> THEN push_message_item("assistant", pending_parts, input_items)
    ELSE LET part == Head(parts)
             flushed == push_message_item("assistant", pending_parts, input_items)
         IN  IF part.part = "ToolCall"
             THEN assistant_parts(Tail(parts), <<>>,
                      IF TextBlank(part.tool_name) THEN flushed
                      ELSE Append(flushed, FunctionCall(part)))
             ELSE assistant_parts(Tail(parts), pending_parts \o map_parts(<<part>>),
                                  input_items)

\* faulty variant: the function_call items first, the text and image parts of
\* the whole message in one item after them
append_assistant_items_unflushed(content, input_items) ==
    IF content.kind = "Text"
    THEN push_message_item("assistant", to_input_content(content), input_items)
    ELSE LET calls == SelectSeq(content.parts,
                                LAMBDA p : p.part = "ToolCall" /\ ~TextBlank(p.tool_name))
         IN  push_message_item("assistant", map_parts(content.parts),
                               input_items \o [i \in DOMAIN calls |-> FunctionCall(calls[i])])

append_assistant_items(content, input_items) ==
    IF content.kind = "Text"
    THEN push_message_item("assistant", to_input_content(content), input_items)
    ELSE assistant_parts(content.parts, <<>>, input_items)

RECURSIVE tool_outputs(_)
tool_outputs(parts) ==
    IF parts = <<>> THEN <<>>
    ELSE (IF Head(parts).part = "ToolResult"
          THEN <<[type |-> "function_call_output", call_id |-> Head(parts).tool_call_id,
                  output |-> tool_output_to_string(Head(parts).output)]>>
          ELSE <<>>) \o tool_outputs(Tail(parts))

\* the loop over request.messages
RECURSIVE input_items_of(_, _)
input_items_of(messages, input_items) ==
    IF messages = <<>> THEN input_items
    ELSE LET msg == Head(messages)
         IN  input_items_of(Tail(messages),
                CASE msg.role = "system" ->
                        IF TextBlank(msg.content.text) THEN input_items
                        ELSE Append(input_items,
                                    MessageItem("developer", <<InputText(msg.content.text)>>))
                  [] msg.role = "user" ->
                        push_message_item("user", to_input_content(msg.content), input_items)
                  [] msg.role = "assistant" -> append_assistant_items(msg.content, input_items)
                  [] OTHER -> input_items \o tool_outputs(msg.content.parts))

build_openai_oauth_request(messages) ==
    [model |-> "gpt-5.2-codex", input |-> input_items_of(messages, <<>>), store |-> FALSE,
     stream |-> TRUE, instructions |-> <<CodexInstructions>>]

\* the parts and the messages the model draws from
Text(text) == [part |-> "Text", text |-> text]

Image(image) == [part |-> "Image", image |-> image]

ToolCallPart(id, name) ==
    [part |-> "ToolCall", tool_call_id |-> id, tool_name |-> name,
     input |-> [url |-> "https://example.com"]]

ToolResult(id, output) == [part |-> "ToolResult", tool_call_id |-> id, output |-> output]

Parts(parts) == [kind |-> "Parts", parts |-> parts]

String(text) == [kind |-> "String", text |-> text]

Messages ==
    {[role |-> "system", content |-> String("sys")],
     [role |-> "system", content |-> String(" ")],
     [role |-> "user", content |-> [kind |-> "Text", text |-> "hi"]],
     [role |-> "assistant", content |-> [kind |-> "Text", text |-> "hello"]],
     [role |-> "assistant",
      content |-> Parts(<<Text("checking"), Image("png"), ToolCallPart("call_1", "webFetch")>>)],
     [role |-> "assistant",
      content |-> Parts(<<Text("t1"), ToolCallPart("call_1", "f"), Text(" "), Text("t2"),
                          ToolCallPart("call_2", " "), ToolResult("call_1", [value |-> "ok"]),
                          Text("t3")>>)],
     [role |-> "tool",
      content |-> Parts(<<ToolResult("call_1", [value |-> "ok"]), Text("x"),
                          ToolResult("call_2", [type |-> "json"])>>)]}

RECURSIVE MessageLists(_)
MessageLists(n) ==
    IF n = 0 THEN {<<>>}
    ELSE MessageLists(n - 1) \cup {Append(l, m) : l \in MessageLists(n - 1), m \in Messages}

InitRequest ==
    /\ pc = "request"
    /\ request \in {[messages |-> l, body |-> <<>>] : l \in MessageLists(MaxMessages)}
    /\ result = "pending"
    /\ rest = <<>>
    /\ received = <<>>
    /\ upstream = "live"
    /\ buffer = <<>>
    /\ state = DefaultState
    /\ events = <<>>
    /\ produced = <<>>
    /\ decoded = <<>>
    /\ frames = <<>>
    /\ http_requests = 0
    /\ empty_chunks = 0
    /\ spans = <<>>
    /\ gateway = <<>>
    /\ callback = <<>>
    /\ settings = <<>>
    /\ resolution = <<>>
    /\ wire = <<>>
    /\ sse = <<>>
    /\ keep_awake = <<>>
    /\ desktop = <<>>
    /\ oauth = <<>>
    /\ fs = <<>>
    /\ throttler = <<>>
    /\ tracer = <<>>
    /\ cache = <<>>

\* handler.build_openai_oauth_request(&request, model)
BuildOpenAIOAuthRequest ==
    /\ pc = "request"
    /\ request.body = <<>>
    /\ request' = [request EXCEPT !.body = <<build_openai_oauth_request(request.messages)>>]
    /\ UNCHANGED <<pc, spans, gateway, callback>>
    /\ UNCHANGED other_vars

NextRequest == BuildOpenAIOAuthRequest

RequestSpec == InitRequest /\ [][NextRequest]_vars

\* the input_text, input_image and function_call leaves of the items, in order
RECURSIVE Leaves(_)
Leaves(items) ==
    IF items = <<>> THEN <<>>
    ELSE (IF Head(items).type = "message" THEN Head(items).content ELSE <<Head(items)>>)
         \o Leaves(Tail(items))

\* what the parts of an assistant message put into the input, one by one
RECURSIVE PartLeaves(_)
PartLeaves(parts) ==
    IF parts = <<>> THEN <<>>
    ELSE (IF Head(parts).part # "ToolCall" THEN map_parts(<<Head(parts)>>)
          ELSE IF TextBlank(Head(parts).tool_name) THEN <<>>
          ELSE <<FunctionCall(Head(parts))>>) \o PartLeaves(Tail(parts))

\* the non-blank system texts of the messages, in order
SystemTexts(messages) ==
    LET sys == SelectSeq(messages, LAMBDA m : m.role = "system" /\ ~TextBlank(m.content.text))
    IN  [i \in DOMAIN sys |-> sys[i].content.text]

\* the items of the body that are messages of the role
ItemsOf(input, role) == SelectSeq(input, LAMBDA it : it.type = "message" /\ it.role = role)

\* the input of the body that the messages alone would give
InputOf(messages) == build_openai_oauth_request(messages).input

\* in the items of one assistant message with parts: the leaves are the text,
\* image and named tool-call parts in order; every function_call item follows
\* the one message item of the parts since the tool call before it
AssistantFlushed(msg) ==
    LET items == InputOf(<<msg>>)
        parts == msg.content.parts
        calls == {i \in DOMAIN parts : parts[i].part = "ToolCall"}
        Run(k) == LET before == {j \in calls : j < k}
                      from == IF before = {} THEN 1
                              ELSE (CHOOSE j \in before : \A h \in before : h <= j) + 1
                  IN  map_parts(SubSeq(parts, from, k - 1))
    IN  /\ Leaves(items) = PartLeaves(parts)
        /\ \A i \in DOMAIN items : items[i].type = "message" => items[i].content # <<>>
        /\ \A k \in calls :
              ~TextBlank(parts[k].tool_name) =>
                  \E i \in DOMAIN items :
                      /\ items[i] = FunctionCall(parts[k])
                      /\ Run(k) # <<>> =>
                            i > 1 /\ items[i - 1] = MessageItem("assistant", Run(k))
                      /\ Run(k) = <<>> => (i = 1 \/ items[i - 1].type # "message")

\* C35 (as stated): every non-blank system message appears in the instructions
\* of the body and as a developer message item.
C35_AsStated ==
    (pc = "request" /\ request.body # <<>>) =>
        \A i \in DOMAIN SystemTexts(request.messages) :
            /\ \E j \in DOMAIN request.body[1].instructions :
                  request.body[1].instructions[j] = SystemTexts(request.messages)[i]
            /\ \E j \in DOMAIN request.body[1].input :
                  request.body[1].input[j]
                     = MessageItem("developer", <<InputText(SystemTexts(request.messages)[i])>>)

\* C35 (amended): the instructions are the base Codex instructions whatever the
\* messages; the developer message items are the non-blank system messages, one
\* each, in order; in an assistant message the text and image parts before a
\* tool call are one message item right before its function_call item; the
\* function_call_output items are the tool results of the tool messages in
\* order; the input is the concatenation of the items of the messages in order.
C35_RequestBody ==
    (pc = "request" /\ request.body # <<>>) =>
        LET body == request.body[1]
            messages == request.messages
            developer == ItemsOf(body.input, "developer")
        IN  /\ body.instructions = <<CodexInstructions>>
            /\ developer = [i \in DOMAIN SystemTexts(messages) |->
                               MessageItem("developer", <<InputText(SystemTexts(messages)[i])>>)]
            /\ \A i \in DOMAIN messages :
                  /\ body.input = InputOf(SubSeq(messages, 1, i - 1))
                                     \o InputOf(<<messages[i]>>)
                                     \o InputOf(SubSeq(messages, i + 1, Len(messages)))
                  /\ (messages[i].role = "assistant" /\ messages[i].content.kind = "Parts")
                        => AssistantFlushed(messages[i])
                  /\ messages[i].role = "tool" =>
                        LET results == SelectSeq(messages[i].content.parts,
                                                 LAMBDA p : p.part = "ToolResult")
                        IN  InputOf(<<messages[i]>>)
                               = [j \in DOMAIN results |->
                                     [type |-> "function_call_output",
                                      call_id |-> results[j].tool_call_id,
                                      output |-> tool_output_to_string(results[j].output)]]

\* the body of a system message, an assistant message whose text and image
\* precede a tool call, and the tool message with its result
C35_Witness ==
    /\ pc = "request"
    /\ request.body # <<>>
    /\ Len(request.messages) = 3
    /\ request.messages[1] = [role |-> "system", content |-> String("sys")]
    /\ request.messages[3].role = "tool"
    /\ SubSeq(request.body[1].input, 1, 3)
          = <<MessageItem("developer", <<InputText("sys")>>),
              MessageItem("assistant", <<InputText("checking"), InputImage("png")>>),
              FunctionCall(ToolCallPart("call_1", "webFetch"))>>
    /\ Len(request.body[1].input) = 5

---------------------------------------------------------------------------
(* The provider that get_model_provider returns for a bare identifier.      *)

\* get_model_provider was called with an identifier that has no '@'
BareCall ==
    /\ pc = "resolver"
    /\ resolution # <<>>
    /\ resolution.call = "get_model_provider"
    /\ Len(split_at(resolution.model_identifier, <<>>)) = 1

\* C37: the provider that get_model_provider returns for a bare identifier
\* satisfies provider_available on the credentials, registry and custom
\* providers of the call, whether it comes from the declared providers, the
\* registry or the custom providers.
C37_ReturnedProviderAvailable ==
    (BareCall /\ resolution.returned.ok) =>
        provider_available(resolution.returned.value[2][1], settings.api_keys,
                           settings.registry, settings.custom_providers)

---------------------------------------------------------------------------
(* The tracing span of stream_completion.  spans holds trace_context (is   *)
(* one supplied), trace_span_id, the span map span_trace_ids of the        *)
(* TraceWriter, the commands offered to its channel, the position of       *)
(* stream_completion and its exit.                                         *)

\* chunks one response delivers
MaxSpanChunks == 6

\* the ids generate_span_id can return
SpanIds == {"s1", "s2"}

\* TraceWriter::start_span on the record w of the writer
start_span(w, span_id) ==
    [w EXCEPT !.span_trace_ids = @ \cup {span_id},
              !.commands = Append(@, [command |-> "CreateSpan", span_id |-> span_id])]

\* TraceWriter::end_span
end_span(w, span_id) ==
    [w EXCEPT !.span_trace_ids = @ \ {span_id},
              !.commands = Append(@, [command |-> "CloseSpan", span_id |-> span_id])]

\* TraceWriter::add_event
add_event(w, span_id, event_type) ==
    [w EXCEPT !.commands = Append(@, [command |-> "AddEvent", span_id |-> span_id,
                                      event_type |-> event_type])]

\* `if let Some(ref span_id) = trace_span_id { trace_writer.add_event(..) }`
record_error(w, error_type) ==
    IF w.trace_span_id # <<>> THEN add_event(w, w.trace_span_id[1], error_type) ELSE w

InitSpans ==
    /\ pc = "spans"
    /\ spans \in {[trace_context |-> c, trace_span_id |-> <<>>, span_trace_ids |-> {},
                   commands |-> <<>>, at |-> "begin", chunks |-> 0, exit |-> "pending"] :
                     c \in BOOLEAN}
    /\ result = "pending"
    /\ rest = <<>>
    /\ received = <<>>
    /\ upstream = "live"
    /\ buffer = <<>>
    /\ state = DefaultState
    /\ events = <<>>
    /\ produced = <<>>
    /\ decoded = <<>>
    /\ frames = <<>>
    /\ http_requests = 0
    /\ empty_chunks = 0
    /\ request = <<>>
    /\ gateway = <<>>
    /\ callback = <<>>
    /\ settings = <<>>
    /\ resolution = <<>>
    /\ wire = <<>>
    /\ sse = <<>>
    /\ keep_awake = <<>>
    /\ desktop = <<>>
    /\ oauth = <<>>
    /\ fs = <<>>
    /\ throttler = <<>>
    /\ tracer = <<>>
    /\ cache = <<>>

\* one step of stream_completion on the spans: from position `from` to w
SpanStep(from, w) ==
    /\ pc = "spans"
    /\ spans.at = from
    /\ spans' = w
    /\ UNCHANGED <<pc, request, gateway, callback>>
    /\ UNCHANGED other_vars

\* `if let Some(ref trace_context) = request.trace_context { .. start_span .. }`
StartTracing ==
    \E span_id \in SpanIds :
        SpanStep("begin",
                 IF spans.trace_context
                 THEN [start_span(spans, span_id) EXCEPT !.trace_span_id = <<span_id>>,
                                                          !.at = "prepare"]
                 ELSE [spans EXCEPT !.at = "prepare"])

\* get_credentials, the request body, the client or send() fails: `?`
PrepareFailed == SpanStep("prepare", [spans EXCEPT !.at = "returned", !.exit = "early"])

\* the response arrived
Responded == SpanStep("prepare", [spans EXCEPT !.at = "status"])

\* status >= 400
SpanHttpError ==
    SpanStep("status", [record_error(spans, "http_error") EXCEPT !.at = "returned",
                                                                  !.exit = "http_error"])

SpanStatusOk == SpanStep("status", [spans EXCEPT !.at = "stream"])

\* a chunk whose frames decode
SpanChunk ==
    /\ spans.chunks < MaxSpanChunks
    /\ SpanStep("stream", [spans EXCEPT !.chunks = @ + 1])

\* the inter-chunk timeout, a read error, invalid UTF-8 or a decoder error
SpanStreamError ==
    \E error_type \in {"stream_timeout", "stream_error", "utf8_error", "parse_error"} :
        SpanStep("stream", [record_error(spans, error_type) EXCEPT !.at = "returned",
                                                                   !.exit = error_type])

\* the end of the stream: the response event, then end_span
SpanCompleted ==
    SpanStep("stream",
             [(IF spans.trace_span_id # <<>>
               THEN end_span(add_event(spans, spans.trace_span_id[1], "response"),
                             spans.trace_span_id[1])
               ELSE spans) EXCEPT !.at = "returned", !.exit = "ok"])

NextSpans ==
    \/ StartTracing
    \/ PrepareFailed
    \/ Responded
    \/ SpanHttpError
    \/ SpanStatusOk
    \/ SpanChunk
    \/ SpanStreamError
    \/ SpanCompleted

SpansSpec == InitSpans /\ [][NextSpans]_vars

\* C38: when stream_completion has returned, normally or on an HTTP status
\* error, the inter-chunk timeout, a read error, invalid UTF-8 or a decoder
\* error, the span it started was ended exactly once and no span id is left in
\* the span map.
C38_SpanEndedOnEveryExit ==
    (pc = "spans" /\ spans.at = "returned" /\ spans.exit # "early") =>
        /\ spans.span_trace_ids = {}
        /\ \A id \in SpanIds :
              Len(SelectSeq(spans.commands,
                            LAMBDA c : c.command = "CreateSpan" /\ c.span_id = id))
                 = Len(SelectSeq(spans.commands,
                                 LAMBDA c : c.command = "CloseSpan" /\ c.span_id = id))

---------------------------------------------------------------------------
(* The Feishu gateway (feishu_gateway.rs): start_gateway, feishu_stop and  *)
(* run_ws_loop over the FeishuGateway behind its mutex.  A loop is named   *)
(* by the number of its stop channel.  The configuration is enabled and    *)
(* has its app id and secret.                                              *)

\* calls of start_gateway
MaxGatewayStarts == 2

\* connections the loops make in all
MaxConnections == 5

DEFAULT_ERROR_BACKOFF_MS == 1500

MAX_ERROR_BACKOFF_MS == 30000

\* u64::clamp
clamp(n, lo, hi) == IF n < lo THEN lo ELSE IF n > hi THEN hi ELSE n

\* jitter is the value of gen_range(0..250)
compute_backoff_ms(current, jitter) ==
    clamp(current * 2 + jitter, DEFAULT_ERROR_BACKOFF_MS, MAX_ERROR_BACKOFF_MS)

\* the loops that have not left run_ws_loop
Active(g) == {l \in DOMAIN g.loops : g.loops[l].at # "exited"}

InitGateway ==
    /\ pc = "gateway"
    /\ gateway = [running |-> FALSE, backoff_ms |-> DEFAULT_ERROR_BACKOFF_MS,
                  stop_tx |-> <<>>, stopped |-> {}, loops |-> <<>>,
                  caller |-> [t \in Threads |-> "idle"], starts |-> 0, connections |-> 0]
    /\ result = "pending"
    /\ rest = <<>>
    /\ received = <<>>
    /\ upstream = "live"
    /\ buffer = <<>>
    /\ state = DefaultState
    /\ events = <<>>
    /\ produced = <<>>
    /\ decoded = <<>>
    /\ frames = <<>>
    /\ http_requests = 0
    /\ empty_chunks = 0
    /\ request = <<>>
    /\ spans = <<>>
    /\ callback = <<>>
    /\ settings = <<>>
    /\ resolution = <<>>
    /\ wire = <<>>
    /\ sse = <<>>
    /\ keep_awake = <<>>
    /\ desktop = <<>>
    /\ oauth = <<>>
    /\ fs = <<>>
    /\ throttler = <<>>
    /\ tracer = <<>>
    /\ cache = <<>>

\* one step on the gateway
GatewayStep(g) ==
    /\ pc = "gateway"
    /\ gateway' = g
    /\ UNCHANGED <<pc, request, spans, callback>>
    /\ UNCHANGED other_vars

\* start_gateway, called by feishu_start or feishu_set_config: the first lock,
\* `if running { return Ok(()) }`
StartGatewayCheck(t) ==
    /\ gateway.caller[t] = "idle"
    /\ gateway.starts < MaxGatewayStarts
    /\ GatewayStep([gateway EXCEPT !.starts = @ + 1,
                                   !.caller[t] = IF gateway.running THEN "idle" ELSE "spawn"])

\* start_gateway: the second lock and thread::spawn of run_ws_loop
StartGatewaySpawn(t) ==
    /\ gateway.caller[t] = "spawn"
    /\ GatewayStep([gateway EXCEPT
            !.running = TRUE,
            !.backoff_ms = DEFAULT_ERROR_BACKOFF_MS,
            !.stop_tx = <<Len(gateway.loops) + 1>>,
            !.loops = Append(@, [at |-> "top", backoff_ms |-> DEFAULT_ERROR_BACKOFF_MS]),
            !.caller[t] = "idle"])

\* feishu_stop: stop_tx.take() sends true and drops the sender
FeishuStop ==
    /\ gateway.running \/ gateway.stop_tx # <<>>
    /\ GatewayStep([gateway EXCEPT
            !.stopped = @ \cup {gateway.stop_tx[i] : i \in DOMAIN gateway.stop_tx},
            !.stop_tx = <<>>,
            !.running = FALSE])

\* run_ws_loop, the head of the loop: the stop check, then `if !running`;
\* has_changed() of a channel whose sender is dropped is Err or Ok(true)
LoopHead(l) ==
    /\ l \in DOMAIN gateway.loops
    /\ gateway.loops[l].at = "top"
    /\ \E has_changed \in (IF l \in gateway.stopped THEN BOOLEAN ELSE {FALSE}) :
          IF has_changed \/ ~gateway.running
          THEN GatewayStep([gateway EXCEPT !.loops[l].at = "exited"])
          ELSE /\ gateway.connections < MaxConnections
               /\ GatewayStep([gateway EXCEPT
                      !.connections = @ + 1,
                      !.loops[l] = [at |-> "connected", backoff_ms |-> gateway.backoff_ms]])

\* start_ws_connection returned Err: record_error_state, compute_backoff_ms, sleep
ConnectionFailed(l) ==
    /\ l \in DOMAIN gateway.loops
    /\ gateway.loops[l].at = "connected"
    /\ \E jitter \in {0, 249} :
          GatewayStep([gateway EXCEPT
              !.backoff_ms = compute_backoff_ms(@, jitter),
              !.loops[l].at = "top"])

\* start_ws_connection returned Ok: clear_error_state, then the backoff read
\* at the head of the loop is written back
ConnectionClosed(l) ==
    /\ l \in DOMAIN gateway.loops
    /\ gateway.loops[l].at = "connected"
    /\ GatewayStep([gateway EXCEPT
          !.backoff_ms = gateway.loops[l].backoff_ms,
          !.loops[l].at = "top"])

NextGateway ==
    \/ \E t \in Threads : StartGatewayCheck(t)
    \/ \E t \in Threads : StartGatewaySpawn(t)
    \/ FeishuStop
    \/ \E l \in 1..MaxGatewayStarts : LoopHead(l)
    \/ \E l \in 1..MaxGatewayStarts : ConnectionFailed(l)
    \/ \E l \in 1..MaxGatewayStarts : ConnectionClosed(l)

GatewaySpec == InitGateway /\ [][NextGateway]_vars

\* C39: at most one websocket loop is active at any time, also when two calls
\* of start_gateway race and when a start follows feishu_stop; backoff_ms is
\* always within [1500, 30000].
C39_AtMostOneLoop ==
    pc = "gateway" =>
        /\ Cardinality(Active(gateway)) <= 1
        /\ gateway.backoff_ms >= DEFAULT_ERROR_BACKOFF_MS
        /\ gateway.backoff_ms <= MAX_ERROR_BACKOFF_MS

\* the part of C39 about the backoff alone
BackoffWithinBounds ==
    pc = "gateway" =>
        /\ gateway.backoff_ms >= DEFAULT_ERROR_BACKOFF_MS
        /\ gateway.backoff_ms <= MAX_ERROR_BACKOFF_MS
        /\ \A l \in DOMAIN gateway.loops :
              gateway.loops[l].backoff_ms \in DEFAULT_ERROR_BACKOFF_MS..MAX_ERROR_BACKOFF_MS

---------------------------------------------------------------------------
(* The OAuth callback server (oauth_callback_server.rs).  A request URL is *)
(* a sequence of pieces: Piece(text) for path text and for the '?', and    *)
(* Param(key, value) for each `key=value` of the query string.             *)

\* requests one server receives
MaxRequests == 3

Piece(text) == [text |-> text]

Param(key, value) == [key |-> key, value |-> value]

CALLBACK_PATH == <<Piece("/auth/callback")>>

\* str::starts_with
str_starts_with(s, prefix) == Len(prefix) <= Len(s) /\ SubSeq(s, 1, Len(prefix)) = prefix

\* str::find('?'): the 0-based index
find(url) ==
    LET at == {i \in DOMAIN url : url[i] = Piece("?")}
    IN  IF at = {} THEN <<>> ELSE <<Min(at) - 1>>

\* "%zz" stands for the values with a malformed percent escape, "a+b" for
\* those that decoding changes
url_decode(s) ==
    IF s = "%zz" THEN <<>> ELSE IF s = "a+b" THEN <<"a b">> ELSE <<s>>

\* the loop over the parameters: a later `code` or `state` replaces an earlier
RECURSIVE params(_, _)
params(query, found) ==
    IF query = <<>> THEN found
    ELSE params(Tail(query),
                IF ~Has(Head(query), "key") THEN found
                ELSE IF Head(query).key = "code"
                THEN [found EXCEPT !.code = url_decode(Head(query).value)]
                ELSE IF Head(query).key = "state"
                THEN [found EXCEPT !.state = url_decode(Head(query).value)]
                ELSE found)

\* Option<(Option<String>, Option<String>)>
parse_callback_request(url) ==
    IF ~str_starts_with(url, CALLBACK_PATH) \/ find(url) = <<>> THEN <<>>
    ELSE <<params(SubSeq(url, find(url)[1] + 2, Len(url)), [code |-> <<>>, state |-> <<>>])>>

OAuthCallbackResult(success, code, st, error) ==
    [success |-> success, code |-> code, state |-> st, error |-> error]

\* the body of the loop of run_callback_server for one request: the status of
\* the response and the result the server returns with, if it returns
handle_request(url, expected_state) ==
    LET parsed == parse_callback_request(url)
    IN  IF ~str_starts_with(url, CALLBACK_PATH) THEN [status |-> 404, returned |-> <<>>]
        ELSE IF parsed = <<>> THEN [status |-> 400, returned |-> <<>>]
        ELSE IF expected_state # <<>> /\ parsed[1].state # expected_state
        THEN [status |-> 400,
              returned |-> <<OAuthCallbackResult(FALSE, <<>>, parsed[1].state,
                                                 <<"State mismatch">>)>>]
        ELSE IF parsed[1].code = <<>>
        THEN [status |-> 400,
              returned |-> <<OAuthCallbackResult(FALSE, <<>>, parsed[1].state,
                                                 <<"No authorization code">>)>>]
        ELSE [status |-> 200,
              returned |-> <<OAuthCallbackResult(TRUE, parsed[1].code, parsed[1].state, <<>>)>>]

\* the request URLs the model draws from
Urls ==
    {CALLBACK_PATH \o <<Piece("?"), Param("code", "c"), Param("state", "s")>>,
     CALLBACK_PATH \o <<Piece("?"), Param("code", "a+b"), Param("state", "x")>>,
     CALLBACK_PATH \o <<Piece("?"), Param("state", "s")>>,
     CALLBACK_PATH \o <<Piece("?"), Param("code", "%zz"), Param("state", "s")>>,
     CALLBACK_PATH,
     CALLBACK_PATH \o <<Piece("x"), Piece("?"), Param("code", "c"), Param("state", "s")>>,
     <<Piece("/favicon.ico")>>}

InitCallback ==
    /\ pc = "callback"
    /\ callback \in {[expected_state |-> e, shutdown_flag |-> FALSE, at |-> "check",
                      timer |-> "sleeping", handled |-> <<>>, emitted |-> <<>>] :
                        e \in {<<>>, <<"s">>}}
    /\ result = "pending"
    /\ rest = <<>>
    /\ received = <<>>
    /\ upstream = "live"
    /\ buffer = <<>>
    /\ state = DefaultState
    /\ events = <<>>
    /\ produced = <<>>
    /\ decoded = <<>>
    /\ frames = <<>>
    /\ http_requests = 0
    /\ empty_chunks = 0
    /\ request = <<>>
    /\ spans = <<>>
    /\ gateway = <<>>
    /\ settings = <<>>
    /\ resolution = <<>>
    /\ wire = <<>>
    /\ sse = <<>>
    /\ keep_awake = <<>>
    /\ desktop = <<>>
    /\ oauth = <<>>
    /\ fs = <<>>
    /\ throttler = <<>>
    /\ tracer = <<>>
    /\ cache = <<>>

\* one step of the server thread or of the timeout thread
CallbackStep(c) ==
    /\ pc = "callback"
    /\ callback' = c
    /\ UNCHANGED <<pc, request, spans, gateway>>
    /\ UNCHANGED other_vars

\* the result is returned and emitted as openai-oauth-callback
returned_with(c, r) == [c EXCEPT !.at = "returned", !.emitted = Append(@, r)]

\* the head of the loop: `if shutdown_flag.load(..)`
CheckShutdown ==
    /\ callback.at = "check"
    /\ CallbackStep(IF callback.shutdown_flag
                    THEN returned_with(callback, OAuthCallbackResult(FALSE, <<>>, <<>>,
                                                                     <<"Server timed out">>))
                    ELSE [callback EXCEPT !.at = "recv"])

\* recv_timeout returned Ok(None) or Err
RecvNothing ==
    /\ callback.at = "recv"
    /\ CallbackStep([callback EXCEPT !.at = "check"])

\* recv_timeout returned a request
RecvRequest ==
    /\ callback.at = "recv"
    /\ Len(callback.handled) < MaxRequests
    /\ \E url \in Urls :
        \E h \in {handle_request(url, callback.expected_state)} :
            CallbackStep(
                LET c == [callback EXCEPT
                              !.handled = Append(@, [url |-> url, status |-> h.status,
                                                     returned |-> h.returned]),
                              !.shutdown_flag = @ \/ h.returned # <<>>]
                IN  IF h.returned # <<>> THEN returned_with(c, h.returned[1])
                    ELSE [c EXCEPT !.at = "check"])

\* the timeout thread after its sleep of SERVER_TIMEOUT_SECS
TimeoutElapsed ==
    /\ callback.timer = "sleeping"
    /\ CallbackStep([callback EXCEPT !.timer = "done", !.shutdown_flag = TRUE])

NextCallback ==
    \/ CheckShutdown
    \/ RecvNothing
    \/ RecvRequest
    \/ TimeoutElapsed

CallbackSpec == InitCallback /\ [][NextCallback]_vars

\* the request is on the path /auth/callback
OnCallbackPath(url) ==
    url = CALLBACK_PATH \/ (Len(url) > 1 /\ url[1] = Piece("/auth/callback") /\ url[2] = Piece("?"))

\* the decoded values of the parameter of the request
ValuesOf(url, key) ==
    {url_decode(url[i].value) : i \in {j \in DOMAIN url : Has(url[j], "key") /\ url[j].key = key}}

\* the request carries a code, and the expected state if one is expected
Accepted(url, expected_state) ==
    /\ OnCallbackPath(url)
    /\ ValuesOf(url, "code") \ {<<>>} # {}
    /\ expected_state # <<>> => ValuesOf(url, "state") = {expected_state}

\* C40: a server emits at most one result, and exactly one once it has
\* ended; the result is a success, with the code, only for a request on
\* /auth/callback with a code and the expected state; a request on
\* /auth/callback with a wrong state or without a code ends the server with a
\* failure; a request on another path gets 404 and the server keeps
\* listening; 'Server timed out' is the result only after the timeout.
C40_OneResultPerServer ==
    pc = "callback" =>
        /\ Len(callback.emitted) = IF callback.at = "returned" THEN 1 ELSE 0
        /\ \A i \in DOMAIN callback.handled :
              LET h == callback.handled[i]
              IN  /\ (h.returned # <<>> /\ h.returned[1].success) =>
                        /\ Accepted(h.url, callback.expected_state)
                        /\ h.returned[1].code \in ValuesOf(h.url, "code")
                  /\ (OnCallbackPath(h.url) /\ ~Accepted(h.url, callback.expected_state)) =>
                        h.returned # <<>> /\ ~h.returned[1].success
                  /\ ~OnCallbackPath(h.url) => h.status = 404 /\ h.returned = <<>>
                  /\ h.returned # <<>> => i = Len(callback.handled) /\ callback.emitted = h.returned
        /\ \A i \in DOMAIN callback.emitted :
              callback.emitted[i].error = <<"Server timed out">> => callback.timer = "done"

====
